---- MODULE Spec2Model ----
(***************************************************************************)
(* Model of backend/internal/service/youtube_import.go: the batch import   *)
(* of remote media (ImportYouTube) into an object store, with its          *)
(* resolver, format selection, naming/dedup plan, transfer and progress    *)
(* events.  Strings that the code edits character by character (titles,    *)
(* prefixes) are sequences of one-character strings; the keys built from   *)
(* them are strings.                                                       *)
(***************************************************************************)
EXTENDS Integers, Sequences, FiniteSets, TLC

(***************************************************************************)
(* Bounds of the model.                                                    *)
(***************************************************************************)
\* batches run one after another against the same store
MaxBatches == 2
\* failures the resolver and the store inject over one run of the model
MaxFaults == 1
\* throttled (non-forced) progress samples of one transfer
MaxSamples == 1

(***************************************************************************)
(* Strings.                                                                *)
(***************************************************************************)
RECURSIVE Str(_)
\* the string spelled by a sequence of characters
Str(s) == IF s = <<>> THEN "" ELSE Head(s) \o Str(Tail(s))

\* the characters fileNameSanitizer keeps: [a-zA-Z0-9\-\._ ]
AllowedChars == {"a", "b", "m", "X", "Y", "Z", "0", "-", ".", "_", " "}
WhiteSpace == {" ", "\t", "\n"}

RECURSIVE TrimLeft(_, _)
TrimLeft(s, cut) ==
    IF s # <<>> /\ Head(s) \in cut THEN TrimLeft(Tail(s), cut) ELSE s

RECURSIVE TrimRight(_, _)
TrimRight(s, cut) ==
    IF s # <<>> /\ s[Len(s)] \in cut
    THEN TrimRight(SubSeq(s, 1, Len(s) - 1), cut) ELSE s

\* strings.Trim / strings.TrimSpace
Trim(s, cut) == TrimRight(TrimLeft(s, cut), cut)
TrimSpace(s) == Trim(s, WhiteSpace)

\* strings.TrimPrefix with a one-character prefix
TrimPrefix(s, c) == IF s # <<>> /\ Head(s) = c THEN Tail(s) ELSE s

\* strings.ReplaceAll of one character by another
ReplaceChar(s, from, to) ==
    [k \in 1..Len(s) |-> IF s[k] = from THEN to ELSE s[k]]

RECURSIVE CollapseSlashes(_)
\* strings.ReplaceAll(s, "//", "/"): one left-to-right pass over
\* non-overlapping matches
CollapseSlashes(s) ==
    IF s = <<>> THEN <<>>
    ELSE IF Len(s) >= 2 /\ s[1] = "/" /\ s[2] = "/"
         THEN <<"/">> \o CollapseSlashes(SubSeq(s, 3, Len(s)))
         ELSE <<Head(s)>> \o CollapseSlashes(Tail(s))

RECURSIVE Fields(_)
\* strings.Fields: the maximal runs of non-space characters
Fields(s) ==
    LET t == TrimLeft(s, WhiteSpace) IN
    IF t = <<>> THEN <<>>
    ELSE LET n == CHOOSE k \in 1..Len(t) :
                    /\ \A j \in 1..k : t[j] \notin WhiteSpace
                    /\ (k = Len(t) \/ t[k + 1] \in WhiteSpace)
         IN  <<SubSeq(t, 1, n)>> \o Fields(SubSeq(t, n + 1, Len(t)))

RECURSIVE Join(_, _)
\* strings.Join
Join(words, sep) ==
    IF words = <<>> THEN <<>>
    ELSE IF Len(words) = 1 THEN words[1]
         ELSE words[1] \o sep \o Join(Tail(words), sep)

\* fileNameSanitizer.ReplaceAllString(value, "")
StripDisallowed(s) == SelectSeq(s, LAMBDA c : c \in AllowedChars)

sanitizeFileName(value) ==
    LET v1 == StripDisallowed(value)
        v2 == TrimSpace(v1)
        v3 == ReplaceChar(v2, "/", "-")
        v4 == ReplaceChar(v3, "\\", "-")
    IN  Join(Fields(v4), <<"-">>)

MaxBaseNameLen == 80
Placeholder == <<"youtube-video">>

buildYouTubeBaseName(title) ==
    LET name == sanitizeFileName(title)
        n1 == IF name = <<>> THEN Placeholder ELSE name
    IN  Str(IF Len(n1) > MaxBaseNameLen THEN SubSeq(n1, 1, MaxBaseNameLen) ELSE n1)

\* lines 489-498, on the characters of the prefix
normalizedPrefix(prefix) ==
    LET p1 == TrimSpace(prefix)
        p2 == TrimPrefix(p1, "/")
        p3 == CollapseSlashes(p2)
        p4 == Trim(p3, {"/"})
    IN  IF p4 = <<>> THEN <<>> ELSE Append(p4, "/")

normalizeObjectPrefix(prefix) == Str(normalizedPrefix(prefix))

(***************************************************************************)
(* Media types.  strings.Contains on a media type is a table over the      *)
(* media types of the catalogue.                                           *)
(***************************************************************************)
MimeContains(mime, sub) ==
    CASE sub = "audio/mp4" -> mime = "audio/mp4; codecs=mp4a"
      [] sub = "mp4"       -> mime \in {"video/mp4; codecs=avc1", "audio/mp4; codecs=mp4a"}
      [] sub = "webm"      -> mime = "video/webm; codecs=vp9"
      [] OTHER             -> FALSE

extensionFromMime(mimeType) ==
    CASE MimeContains(mimeType, "audio/mp4") -> ".m4a"
      [] MimeContains(mimeType, "mp4")       -> ".mp4"
      [] MimeContains(mimeType, "webm")      -> ".webm"
      [] OTHER                               -> ".bin"

\* the media type up to the first ";", trimmed
contentTypeFromMime(mimeType) ==
    CASE mimeType = "video/mp4; codecs=avc1"  -> "video/mp4"
      [] mimeType = "audio/mp4; codecs=mp4a"  -> "audio/mp4"
      [] mimeType = "video/webm; codecs=vp9"  -> "video/webm"
      [] OTHER                                -> mimeType

buildYouTubeFilename(title, format) ==
    buildYouTubeBaseName(title) \o extensionFromMime(format.mime)

buildYouTubeFilenameWithID(title, videoID, format) ==
    buildYouTubeBaseName(title) \o "-" \o videoID \o extensionFromMime(format.mime)

(***************************************************************************)
(* Format selection.                                                       *)
(***************************************************************************)
NoFormat == [mime |-> "", audio |-> 0, rank |-> 0, contentLength |-> 0]

\* mutant: the list is sorted the other way round
BestFormat_Lowest(list) ==
    LET k == CHOOSE k \in 1..Len(list) :
                 /\ \A j \in 1..Len(list) : list[j].rank >= list[k].rank
                 /\ \A j \in 1..(k - 1) : list[j].rank > list[k].rank
    IN  list[k]

\* FormatList.Sort then [0]: the best-ranked format, the first of equals
BestFormat(list) ==
    LET k == CHOOSE k \in 1..Len(list) :
                 /\ \A j \in 1..Len(list) : list[j].rank <= list[k].rank
                 /\ \A j \in 1..(k - 1) : list[j].rank < list[k].rank
    IN  list[k]

\* [ok, format]: ok is FALSE when no format carries audio
selectYouTubeFormat(video) ==
    LET withAudio == SelectSeq(video.formats, LAMBDA f : f.audio > 0)
        mp4Formats == SelectSeq(withAudio, LAMBDA f : MimeContains(f.mime, "mp4"))
    IN  IF Len(withAudio) = 0 THEN [ok |-> FALSE, format |-> NoFormat]
        ELSE [ok |-> TRUE,
              format |-> IF Len(mp4Formats) > 0 THEN BestFormat(mp4Formats)
                         ELSE BestFormat(withAudio)]

(***************************************************************************)
(* The remote source: the videos the resolver knows and the references     *)
(* that lead to them.  A and B sanitize to the same base name; the primary *)
(* file name of C is the ID-suffixed file name of B; D has neither an ID   *)
(* nor a title; N has no format with audio.                                *)
(***************************************************************************)
Fmt(mime, audio, rank, len) ==
    [mime |-> mime, audio |-> audio, rank |-> rank, contentLength |-> len]

Catalogue ==
    [A |-> [id |-> "X", title |-> <<"a", " ", "b">>, bytes |-> 2, sizeHint |-> 2,
            formats |-> <<Fmt("video/webm; codecs=vp9", 2, 3, 0),
                          Fmt("video/mp4; codecs=avc1", 2, 2, 0),
                          Fmt("video/mp4; codecs=avc1", 0, 5, 9)>>],
     B |-> [id |-> "Y", title |-> <<"a", " ", " ", "b", "!">>, bytes |-> 1, sizeHint |-> 0,
            formats |-> <<Fmt("video/mp4; codecs=avc1", 2, 1, 3)>>],
     C |-> [id |-> "Z", title |-> <<"a", "-", "b", "-", "Y">>, bytes |-> 1, sizeHint |-> 0,
            formats |-> <<Fmt("video/mp4; codecs=avc1", 2, 1, 1)>>],
     D |-> [id |-> "", title |-> <<>>, bytes |-> 1, sizeHint |-> 1,
            formats |-> <<Fmt("video/webm; codecs=vp9", 2, 1, 0)>>],
     N |-> [id |-> "0", title |-> <<"m">>, bytes |-> 1, sizeHint |-> 0,
            formats |-> <<Fmt("video/mp4; codecs=avc1", 0, 1, 1)>>]]

\* the references a caller passes (YouTubeImportInput.URL)
URLs == {<<" ">>, <<" ", "v", "A">>, <<"v", "D">>, <<"p", "1">>, <<"p", "2">>}

\* the playlists of the remote source, by trimmed reference
Playlists == [p1 |-> <<"A", "B", "C">>, p2 |-> <<"N">>]

\* the single videos of the remote source, by trimmed reference
SingleVideos == [vA |-> "A", vD |-> "D"]

\* the destination prefixes a caller passes (YouTubeImportInput.DestinationPrefix)
Prefixes == {<<>>, <<"/", "m", "/">>}

(***************************************************************************)
(* The object store.  An object is its metadata, its content type and the  *)
(* origin of its bytes.                                                    *)
(***************************************************************************)
youtubeVideoIDMetadataKey == "bucketbird-video-id"
youtubeVideoTitleMetadataKey == "bucketbird-video-title"

ErrNotFoundMsg == "NotFound: Not Found"
ErrStoreMsg == "RequestError: send request failed"
ErrNoFormat == "no downloadable formats with audio were found"
ErrStreamOpen == "cannot open stream"
ErrPut == "put object failed"
ErrMember == "cannot load playlist entry"
ErrCancelled == "context canceled"
ErrURLRequired == "youtube url is required"
ErrSetup == "bucket not available"
ErrLoadPlaylist == "failed to load playlist"
ErrLoadVideo == "failed to load video"

\* strings.ToLower on the metadata keys a store returns
ToLower(key) ==
    CASE key = "Bucketbird-Video-Id"    -> "bucketbird-video-id"
      [] key = "Bucketbird-Video-Title" -> "bucketbird-video-title"
      [] OTHER                          -> key

EqualFold(a, b) == ToLower(a) = ToLower(b)

\* the store returns user metadata under canonical header names
CanonicalKey(key) ==
    CASE key = "bucketbird-video-id"    -> "Bucketbird-Video-Id"
      [] key = "bucketbird-video-title" -> "Bucketbird-Video-Title"
      [] OTHER                          -> key

NoMetadata == [k \in {} |-> ""]

\* an object that was in the bucket before any import
UnrelatedObject ==
    [metadata |-> NoMetadata, contentType |-> "text/plain", body |-> "unrelated"]

EmptyStore == [k \in {} |-> UnrelatedObject]

InitialStores ==
    {EmptyStore, [k \in {"a-b.mp4"} |-> UnrelatedObject]}

\* mutant: the metadata key is compared exactly, not case-insensitively
metadataMatchesYouTubeVideo_ExactKey(metadata, videoID) ==
    IF Cardinality(DOMAIN metadata) = 0 \/ videoID = "" THEN FALSE
    ELSE \E key \in DOMAIN metadata :
             key = youtubeVideoIDMetadataKey /\ metadata[key] = videoID

metadataMatchesYouTubeVideo(metadata, videoID) ==
    IF Cardinality(DOMAIN metadata) = 0 \/ videoID = "" THEN FALSE
    ELSE \E key \in DOMAIN metadata :
             EqualFold(key, youtubeVideoIDMetadataKey) /\ metadata[key] = videoID

\* mutant: every error of a lookup is taken for "not found"
isNotFoundError_AnyError(err) == err # ""

isNotFoundError(err) ==
    IF err = "" THEN FALSE ELSE err \in {ErrNotFoundMsg}

\* store.HeadObject: the metadata of the object at key, an error when there
\* is none, or an error of the store itself
HeadObject(st, key, fails) ==
    IF fails THEN [err |-> ErrStoreMsg, metadata |-> NoMetadata]
    ELSE IF key \in DOMAIN st THEN [err |-> "", metadata |-> st[key].metadata]
    ELSE [err |-> ErrNotFoundMsg, metadata |-> NoMetadata]

\* store.PutObject, when it succeeds
PutObject(st, key, body, contentType, metadata) ==
    [k \in (DOMAIN st) \cup {key} |->
        IF k = key
        THEN [metadata |-> [m \in {CanonicalKey(n) : n \in DOMAIN metadata} |->
                               LET n == CHOOSE n \in DOMAIN metadata : CanonicalKey(n) = m
                               IN  metadata[n]],
              contentType |-> contentType, body |-> body]
        ELSE st[k]]

(***************************************************************************)
(* State.                                                                  *)
(***************************************************************************)
VARIABLES
    store,        \* the bucket: key -> object
    pc,           \* where ImportYouTube stands: idle, loop, open, dedup, put, done
    url,          \* input.URL of the current batch
    prefix,       \* the normalized destination prefix of the current batch
    entries,      \* the declared items of the reference (playlist.Videos, or the one video)
    failedEntries,\* the positions of entries whose resolution failed
    resolution,   \* what the resolver answered: none, playlist, video, playlist-error, video-error
    videos,       \* the resolved videos, in order
    i,            \* the loop index over videos, from 1
    format,       \* the format selected for videos[i]
    key,          \* the key planned for the write of videos[i]
    downloadErr,  \* what the last downloadYouTubeVideo returned as error ("" is nil)
    result,       \* the YouTubeImportResult under construction
    ret,          \* what ImportYouTube returned: [kind: none | result | error, err]
    events,       \* the progress events of the current batch, in order
    cancelled,    \* ctx.Err() # nil
    recalc,       \* usage recomputations scheduled and not yet run
    scheduled,    \* usage recomputations the current batch scheduled
    heads,        \* HeadObject calls of the current batch
    puts,         \* PutObject calls of the current batch: [key, existed, ok]
    batches,      \* batches started so far
    faults,       \* failures injected so far
    faults0,      \* faults when the current batch started
    store0,       \* the store when the current batch started
    prev,         \* the previous batch, if it imported its only item: [url, prefix, only]
    streamRead,   \* bytes the current batch has read from source streams
    streams,      \* the source streams the current batch has opened, in order
    envLog,       \* what the resolver, the store and the caller did to the current
                  \* batch: [failures, cancelAt], the calls that failed, in order,
                  \* and the item before which the cancellation will be seen
    sink,         \* whether the caller passed a progress callback (progress # nil)
    reader,       \* a progressReader and the stream it wraps
    call          \* a call of one of the pure functions: [fn, arg, out, done]

vars == <<store, pc, url, prefix, entries, failedEntries, resolution, videos, i, format, key,
          downloadErr, result, ret, events, cancelled, recalc, scheduled, heads,
          puts, batches, faults, faults0, store0, prev, streamRead, streams, envLog,
          sink,
          reader, call>>

batchVars == <<url, prefix, entries, failedEntries, resolution, videos, faults0, store0,
               prev, batches>>

\* what only the steps of a batch change
batchState == <<store, pc, i, format, key, downloadErr, result, ret, events, cancelled,
                recalc, scheduled, heads, puts, faults, streamRead, streams,
                envLog>>

\* what the steps of a batch never change: the callback the caller passed, and
\* the state of the reader and of the function calls that are examined on
\* their own
sideVars == <<sink, reader, call>>

NoResult ==
    [kind |-> "video", imported |-> 0, skipped |-> 0, totalBytes |-> 0,
     items |-> <<>>, errors |-> <<>>]

NoRet == [kind |-> "none", err |-> ""]
NoPrev == [url |-> <<>>, prefix |-> "", only |-> FALSE]

\* a YouTubeImportProgress with every field at its zero value
NoEvent ==
    [stage |-> "", kind |-> "", index |-> 0, total |-> 0, imported |-> 0,
     failed |-> 0, totalBytes |-> 0, video |-> "", videoID |-> "", error |-> "",
     destination |-> "", bytesRead |-> 0, totalBytesExpected |-> 0,
     skipped |-> FALSE, skippedCount |-> 0]

\* nothing has failed and the caller has not cancelled
NoEnvLog == [failures |-> <<>>, cancelAt |-> 0]

\* the log after the calls named in calls were made: <<what, item>> for a call
\* that failed, <<"", item>> for one that did not
Failed(log, calls) ==
    [log EXCEPT !.failures = @ \o SelectSeq(calls, LAMBDA c : c[1] # "")]

\* no reader is open
NoReader ==
    [total |-> 0, read |-> 0, lastBytes |-> 0, lastTime |-> 0, callback |-> FALSE,
     length |-> 0, now |-> 0, ticks |-> 0, ended |-> "", samples |-> <<>>]

\* no function is being called
NoCall == [fn |-> "", arg |-> <<>>, out |-> <<>>, done |-> FALSE]

\* mutant: the callback is called without looking at it
emitProgress_NoNilCheck(progress, log, evs) == log \o evs

\* lines 500-505: the events the callback has received after evs are emitted;
\* without a callback nothing is called
emitProgress(progress, log, evs) ==
    IF ~progress THEN log ELSE log \o evs

\* no batch is running: the store is st and n batches have run
BatchStart(st, n) ==
    /\ store = st
    /\ pc = "idle"
    /\ url = <<>>
    /\ prefix = ""
    /\ entries = <<>>
    /\ failedEntries = {}
    /\ resolution = "none"
    /\ videos = <<>>
    /\ i = 0
    /\ format = NoFormat
    /\ key = ""
    /\ downloadErr = ""
    /\ result = NoResult
    /\ ret = NoRet
    /\ events = <<>>
    /\ cancelled = FALSE
    /\ recalc = 0
    /\ scheduled = 0
    /\ heads = 0
    /\ puts = <<>>
    /\ batches = n
    /\ faults = 0
    /\ faults0 = 0
    /\ store0 = store
    /\ prev = NoPrev
    /\ streamRead = 0
    /\ streams = <<>>
    /\ envLog = NoEnvLog

\* no batch has run
BatchInit == \E st \in InitialStores : BatchStart(st, 0)

Init ==
    /\ BatchInit
    /\ sink = TRUE
    /\ reader = NoReader
    /\ call = NoCall

(***************************************************************************)
(* ImportYouTube, up to the item loop (lines 82-130).                      *)
(***************************************************************************)
\* when a call is repeated for comparison, the arguments are those of the
\* call it repeats
SameCall(u, p) ==
    /\ u = call.arg.url
    /\ normalizeObjectPrefix(p) = call.arg.prefix

\* what a call of ImportYouTube starts from, whatever its outcome
Enter(u, p) ==
    /\ pc = "idle"
    /\ call.done => SameCall(u, p)
    /\ batches < MaxBatches
    /\ batches' = batches + 1
    /\ url' = u
    /\ prefix' = normalizeObjectPrefix(p)
    /\ store0' = store
    /\ faults0' = faults
    /\ cancelled' = FALSE
    /\ i' = 1
    /\ UNCHANGED <<store, recalc, format, key, downloadErr, scheduled, heads, puts, prev>>
    /\ UNCHANGED <<sideVars, streamRead, streams>>

\* return nil, err
ReturnError(msg) ==
    /\ ret' = [kind |-> "error", err |-> msg]
    /\ pc' = "done"

ResolvingEvent(pfx) ==
    [NoEvent EXCEPT !.stage = "resolving", !.destination = pfx]

\* mutant: the resolved event does not say what was resolved
ResolvedEvent_NoKind(kind, total, pfx) ==
    [NoEvent EXCEPT !.stage = "resolved", !.total = total, !.destination = pfx]

\* lines 124-130
ResolvedEvent(kind, total, pfx) ==
    [NoEvent EXCEPT !.stage = "resolved", !.kind = kind, !.total = total,
                    !.destination = pfx]

\* lines 82-85: the reference is empty after trimming
BeginEmptyURL ==
    \E u \in URLs, p \in Prefixes :
        /\ Enter(u, p)
        /\ TrimSpace(u) = <<>>
        /\ ReturnError(ErrURLRequired)
        /\ envLog' = NoEnvLog
        /\ events' = <<>>
        /\ result' = NoResult
        /\ entries' = <<>> /\ failedEntries' = {} /\ videos' = <<>>
        /\ resolution' = "none"
        /\ UNCHANGED faults

\* lines 87-95: the bucket or its store cannot be obtained
BeginSetupFails ==
    \E u \in URLs, p \in Prefixes :
        /\ Enter(u, p)
        /\ TrimSpace(u) # <<>>
        /\ faults < MaxFaults
        /\ faults' = faults + 1
        /\ ReturnError(ErrSetup)
        /\ envLog' = Failed(NoEnvLog, <<<<"setup", 0>>>>)
        /\ events' = <<>>
        /\ result' = NoResult
        /\ entries' = <<>> /\ failedEntries' = {} /\ videos' = <<>>
        /\ resolution' = "none"

\* mutant: a failed resolution is returned as an empty result
BeginResolveFails_ReturnsResult ==
    \E u \in URLs, p \in Prefixes :
        /\ Enter(u, p)
        /\ TrimSpace(u) # <<>>
        /\ faults < MaxFaults
        /\ faults' = faults + 1
        /\ resolution' = "playlist-error"
        /\ envLog' = Failed(NoEnvLog, <<<<"playlist", 0>>>>)
        /\ ret' = [kind |-> "result", err |-> ""]
        /\ pc' = "done"
        /\ events' = emitProgress(sink, <<>>, <<ResolvingEvent(normalizeObjectPrefix(p))>>)
        /\ result' = NoResult
        /\ entries' = <<>> /\ failedEntries' = {} /\ videos' = <<>>

\* lines 111-120 with 252-265: the playlist lookup fails with an error other
\* than ErrInvalidPlaylist, or the single video cannot be loaded
BeginResolveFails ==
    \E u \in URLs, p \in Prefixes :
        /\ Enter(u, p)
        /\ TrimSpace(u) # <<>>
        /\ faults < MaxFaults
        /\ faults' = faults + 1
        /\ \/ /\ ReturnError(ErrLoadPlaylist)
              /\ resolution' = "playlist-error"
              /\ envLog' = Failed(NoEnvLog, <<<<"playlist", 0>>>>)
           \/ /\ Str(TrimSpace(u)) \in DOMAIN SingleVideos
              /\ ReturnError(ErrLoadVideo)
              /\ resolution' = "video-error"
              /\ envLog' = Failed(NoEnvLog, <<<<"video", 0>>>>)
        /\ events' = emitProgress(sink, <<>>, <<ResolvingEvent(normalizeObjectPrefix(p))>>)
        /\ result' = NoResult
        /\ entries' = <<>> /\ failedEntries' = {} /\ videos' = <<>>

RECURSIVE Resolved_StopsAtFailure(_, _, _)
\* mutant: the first member that cannot be loaded ends the enumeration
Resolved_StopsAtFailure(es, failed, k) ==
    IF k > Len(es) \/ k \in failed THEN <<>>
    ELSE <<es[k]>> \o Resolved_StopsAtFailure(es, failed, k + 1)

RECURSIVE Resolved(_, _, _)
\* the entries from position k on whose resolution succeeded
Resolved(es, failed, k) ==
    IF k > Len(es) THEN <<>>
    ELSE (IF k \in failed THEN <<>> ELSE <<es[k]>>) \o Resolved(es, failed, k + 1)

RECURSIVE Unresolved(_, _, _)
\* the entries from position k on whose resolution failed
Unresolved(es, failed, k) ==
    IF k > Len(es) THEN <<>>
    ELSE (IF k \in failed THEN <<es[k]>> ELSE <<>>) \o Unresolved(es, failed, k + 1)

MemberError(v) == [video |-> v, videoID |-> Catalogue[v].id, error |-> ErrMember]
MemberErrorEvent(v) ==
    [NoEvent EXCEPT !.stage = "error", !.kind = "playlist", !.video = v,
                    !.videoID = Catalogue[v].id, !.error = ErrMember]

\* mutant: a member that cannot be loaded is dropped without a trace
videosFromPlaylist_DropsFailed(es, failed) ==
    [videos |-> Resolved(es, failed, 1), errors |-> <<>>, events |-> <<>>]

\* lines 270-299: the videos of a playlist; a member that cannot be loaded
\* becomes an error of the result and an error event
videosFromPlaylist(es, failed) ==
    LET bad == Unresolved(es, failed, 1) IN
    [videos |-> Resolved(es, failed, 1),
     errors |-> [k \in 1..Len(bad) |-> MemberError(bad[k])],
     events |-> [k \in 1..Len(bad) |-> MemberErrorEvent(bad[k])]]

\* lines 111-130 with 252-256: the reference is a playlist
BeginPlaylist ==
    \E u \in URLs, p \in Prefixes :
        /\ Enter(u, p)
        /\ Str(TrimSpace(u)) \in DOMAIN Playlists
        /\ LET es == Playlists[Str(TrimSpace(u))] IN
           \E failed \in SUBSET (1..Len(es)) :
               LET r == videosFromPlaylist(es, failed)
                   pfx == normalizeObjectPrefix(p)
               IN  /\ faults + Cardinality(failed) <= MaxFaults
                   /\ faults' = faults + Cardinality(failed)
                   /\ entries' = es
                   /\ resolution' = "playlist"
                   /\ failedEntries' = failed
                   /\ envLog' = Failed(NoEnvLog, [k \in 1..Len(es) |->
                                    <<IF k \in failed THEN "member" ELSE "", k>>])
                   /\ videos' = r.videos
                   /\ result' = [NoResult EXCEPT !.kind = "playlist", !.errors = r.errors]
                   /\ events' = emitProgress(sink, <<>>,
                                    <<ResolvingEvent(pfx)>> \o r.events
                                    \o <<ResolvedEvent("playlist", Len(r.videos), pfx)>>)
        /\ ret' = NoRet
        /\ pc' = "loop"

\* lines 111-130 with 258-267: the reference is not a playlist and names a video
BeginVideo ==
    \E u \in URLs, p \in Prefixes :
        /\ Enter(u, p)
        /\ Str(TrimSpace(u)) \in DOMAIN SingleVideos
        /\ LET v == SingleVideos[Str(TrimSpace(u))]
               pfx == normalizeObjectPrefix(p)
           IN  /\ entries' = <<v>>
               /\ resolution' = "video"
               /\ failedEntries' = {}
               /\ envLog' = NoEnvLog
               /\ videos' = <<v>>
               /\ result' = [NoResult EXCEPT !.kind = "video"]
               /\ events' = emitProgress(sink, <<>>,
                                <<ResolvingEvent(pfx), ResolvedEvent("video", 1, pfx)>>)
        /\ ret' = NoRet
        /\ pc' = "loop"
        /\ UNCHANGED faults

(***************************************************************************)
(* The item loop (lines 132-218) and the end of the batch (lines 220-242). *)
(***************************************************************************)
Video == Catalogue[videos[i]]

\* mutant: the events carry the loop variable, which counts from 0
ItemEvent_ZeroBased(stage) ==
    [NoEvent EXCEPT !.stage = stage, !.kind = result.kind, !.index = i - 1,
                    !.total = Len(videos), !.video = videos[i], !.videoID = Video.id]

\* lines 137-145 and the like: what every event of the item at hand carries
ItemEvent(stage) ==
    [NoEvent EXCEPT !.stage = stage, !.kind = result.kind, !.index = i,
                    !.total = Len(videos), !.video = videos[i], !.videoID = Video.id]

\* mutant: the context is never looked at
CancelObserved_Never == FALSE

\* line 133: ctx.Err() # nil
CancelObserved == cancelled

\* lines 132-135: cancellation is seen at the head of an iteration
LoopCancelled ==
    /\ pc = "loop"
    /\ i <= Len(videos)
    /\ CancelObserved
    /\ ReturnError(ErrCancelled)
    /\ UNCHANGED <<store, i, format, key, downloadErr, result, events, cancelled,
                   recalc, scheduled, heads, puts, faults>>
    /\ UNCHANGED batchVars
    /\ UNCHANGED <<sideVars, streamRead, streams, envLog>>

\* lines 132-145: the next item starts
LoopStart ==
    /\ pc = "loop"
    /\ i <= Len(videos)
    /\ ~CancelObserved
    /\ events' = emitProgress(sink, events, <<ItemEvent("starting")>>)
    /\ downloadErr' = ""
    /\ pc' = "open"
    /\ UNCHANGED <<store, i, format, key, result, ret, cancelled,
                   recalc, scheduled, heads, puts, faults>>
    /\ UNCHANGED batchVars
    /\ UNCHANGED <<sideVars, streamRead, streams, envLog>>

\* mutant: the usage recomputation is started after every batch
RecalcWanted_Always(res) == TRUE

\* line 220: whether the usage recomputation is started
RecalcWanted(res) == res.imported > 0

FinishedEvent(res, total) ==
    [NoEvent EXCEPT !.stage = "finished", !.kind = res.kind,
                    !.imported = res.imported, !.failed = Len(res.errors),
                    !.skippedCount = res.skipped, !.total = total,
                    !.totalBytes = res.totalBytes]

\* mutant: the finished event is emitted with the recomputation only
Finish_SilentWithoutImport ==
    /\ pc = "loop"
    /\ i > Len(videos)
    /\ recalc' = IF RecalcWanted(result) THEN recalc + 1 ELSE recalc
    /\ scheduled' = IF RecalcWanted(result) THEN scheduled + 1 ELSE scheduled
    /\ events' = IF RecalcWanted(result)
                 THEN emitProgress(sink, events, <<FinishedEvent(result, Len(videos))>>)
                 ELSE events
    /\ ret' = [kind |-> "result", err |-> ""]
    /\ pc' = "done"
    /\ UNCHANGED <<store, i, format, key, downloadErr, result, cancelled, heads,
                   puts, faults>>
    /\ UNCHANGED batchVars
    /\ UNCHANGED <<sideVars, streamRead, streams, envLog>>

\* lines 220-242: the loop is over
Finish ==
    /\ pc = "loop"
    /\ i > Len(videos)
    /\ recalc' = IF RecalcWanted(result) THEN recalc + 1 ELSE recalc
    /\ scheduled' = IF RecalcWanted(result) THEN scheduled + 1 ELSE scheduled
    /\ events' = emitProgress(sink, events, <<FinishedEvent(result, Len(videos))>>)
    /\ ret' = [kind |-> "result", err |-> ""]
    /\ pc' = "done"
    /\ UNCHANGED <<store, i, format, key, downloadErr, result, cancelled, heads,
                   puts, faults>>
    /\ UNCHANGED batchVars
    /\ UNCHANGED <<sideVars, streamRead, streams, envLog>>

\* lines 163-184: the item failed
recordError(res, v, msg) ==
    [res EXCEPT !.errors = Append(@, [video |-> v, videoID |-> Catalogue[v].id,
                                      error |-> msg])]

\* mutant: the failure of an item is returned as the error of the batch
ItemFails_Aborts(msg, samples) ==
    /\ downloadErr' = msg
    /\ result' = recordError(result, videos[i], msg)
    /\ events' = emitProgress(sink, events,
                     samples \o <<[ItemEvent("error") EXCEPT !.error = msg]>>)
    /\ i' = i
    /\ ReturnError(msg)

ItemFails(msg, samples) ==
    /\ downloadErr' = msg
    /\ result' = recordError(result, videos[i], msg)
    /\ events' = emitProgress(sink, events,
                     samples \o <<[ItemEvent("error") EXCEPT !.error = msg]>>)
    /\ i' = i + 1
    /\ pc' = "loop"
    /\ UNCHANGED ret

\* mutant: a skipped item falls through to the bookkeeping of a written one
ItemSkipped_KeepsItem ==
    /\ downloadErr' = ""
    /\ result' = [result EXCEPT !.skipped = @ + 1, !.imported = @ + 1,
                                !.items = Append(@, [video |-> videos[i], key |-> key,
                                                     videoID |-> Video.id, sizeBytes |-> 0,
                                                     contentType |-> ""])]
    /\ events' = emitProgress(sink, events, <<[ItemEvent("skipped") EXCEPT !.skipped = TRUE]>>)
    /\ i' = i + 1
    /\ pc' = "loop"
    /\ UNCHANGED ret

\* lines 186-199: the item is already in the store
ItemSkipped ==
    /\ downloadErr' = ""
    /\ result' = [result EXCEPT !.skipped = @ + 1]
    /\ events' = emitProgress(sink, events, <<[ItemEvent("skipped") EXCEPT !.skipped = TRUE]>>)
    /\ i' = i + 1
    /\ pc' = "loop"
    /\ UNCHANGED ret

\* mutant: the bytes of the item are not added to the total
recordImported_CountsOnly(res, item) ==
    [res EXCEPT !.items = Append(@, item), !.imported = @ + 1]

\* lines 201-203: the item was written
recordImported(res, item) ==
    [res EXCEPT !.items = Append(@, item), !.imported = @ + 1,
                !.totalBytes = @ + item.sizeBytes]

\* lines 310-323: the format is selected and the stream is opened
\* lines 321-323: a format that declares no length takes the length hint
\* that came with the stream
withSizeHint(fmt, sizeHint) ==
    IF fmt.contentLength = 0 /\ sizeHint > 0
    THEN [fmt EXCEPT !.contentLength = sizeHint]
    ELSE fmt

\* line 315: the stream that GetStreamContext returns for item n
GetStream(n) == [item |-> n, open |-> TRUE, wrapped |-> FALSE, closes |-> 0]

\* mutant: the stream stays open when it is closed
closeStream_Leaks(ss, n) ==
    [k \in DOMAIN ss |->
        IF ss[k].item = n THEN [ss[k] EXCEPT !.closes = @ + 1] ELSE ss[k]]

\* stream.Close(): the stream of item n is closed, once more
closeStream(ss, n) ==
    [k \in DOMAIN ss |->
        IF ss[k].item = n THEN [ss[k] EXCEPT !.open = FALSE, !.closes = @ + 1]
        ELSE ss[k]]

\* line 381: the stream of item n is wrapped in a progressReader
newProgressReader(ss, n) ==
    [k \in DOMAIN ss |->
        IF ss[k].item = n THEN [ss[k] EXCEPT !.wrapped = TRUE] ELSE ss[k]]

\* lines 571-573: closing the wrapper closes the stream it wraps
progressReaderClose(ss, n) == closeStream(ss, n)

\* mutant: a return before the wrapping leaves the stream as it is
ReturnUnwrapped_NoDefer(ss, n) == ss

\* line 319: the deferred stream.Close() of a return before the wrapping
ReturnUnwrapped(ss, n) == closeStream(ss, n)

\* lines 319 and 382: the deferred calls of a return after the wrapping, last
\* deferred first
ReturnWrapped(ss, n) == closeStream(progressReaderClose(ss, n), n)

DownloadOpen ==
    /\ pc = "open"
    /\ LET sel == selectYouTubeFormat(Video) IN
       \/ /\ ~sel.ok
          /\ ItemFails(ErrNoFormat, <<>>)
          /\ UNCHANGED <<format, faults, envLog, streams>>
       \/ /\ sel.ok
          /\ faults < MaxFaults
          /\ faults' = faults + 1
          /\ ItemFails(ErrStreamOpen, <<>>)
          /\ envLog' = Failed(envLog, <<<<"open", i>>>>)
          /\ UNCHANGED <<format, streams>>
       \/ /\ sel.ok
          /\ format' = withSizeHint(sel.format, Video.sizeHint)
          /\ pc' = "dedup"
          /\ streams' = Append(streams, GetStream(i))
          /\ UNCHANGED <<i, downloadErr, result, ret, events, faults, envLog>>
    /\ UNCHANGED <<store, key, cancelled, recalc, scheduled, heads, puts>>
    /\ UNCHANGED batchVars
    /\ UNCHANGED <<sideVars, streamRead>>

primaryKeyOf(pfx, v, fmt) ==
    IF pfx # "" THEN pfx \o buildYouTubeFilename(v.title, fmt)
    ELSE buildYouTubeFilename(v.title, fmt)

legacyKeyOf(pfx, v, fmt) ==
    IF pfx # "" THEN pfx \o buildYouTubeFilenameWithID(v.title, v.id, fmt)
    ELSE buildYouTubeFilenameWithID(v.title, v.id, fmt)

\* mutant: the new object always takes the primary key
chooseKey_AlwaysPrimary(primaryKey, legacyKey, primaryExists) == primaryKey

\* lines 367-372: the key of the new object
chooseKey(primaryKey, legacyKey, primaryExists) ==
    IF primaryExists THEN legacyKey ELSE primaryKey

\* mutant: an object at the primary key is taken for the video, whatever its
\* metadata
planYouTubeKey_AnyPrimary(primaryKey, legacyKey, videoID, h1, h2) ==
    IF h1.err # "" /\ ~isNotFoundError(h1.err)
    THEN [outcome |-> "error", key |-> "", err |-> h1.err, heads |-> 1]
    ELSE IF h1.err = ""
    THEN [outcome |-> "skip", key |-> primaryKey, err |-> "", heads |-> 1]
    ELSE IF h2.err = ""
    THEN [outcome |-> "skip", key |-> legacyKey, err |-> "", heads |-> 2]
    ELSE IF ~isNotFoundError(h2.err)
    THEN [outcome |-> "error", key |-> "", err |-> h2.err, heads |-> 2]
    ELSE [outcome |-> "put", key |-> primaryKey, err |-> "", heads |-> 2]

\* lines 338-372: skip, fail or write, from the answers of the store to the
\* lookups of the two keys; the second lookup is made only if the first
\* does not decide
planYouTubeKey(primaryKey, legacyKey, videoID, h1, h2) ==
    IF h1.err # "" /\ ~isNotFoundError(h1.err)
    THEN [outcome |-> "error", key |-> "", err |-> h1.err, heads |-> 1]
    ELSE IF h1.err = "" /\ metadataMatchesYouTubeVideo(h1.metadata, videoID)
    THEN [outcome |-> "skip", key |-> primaryKey, err |-> "", heads |-> 1]
    ELSE IF h2.err = ""
    THEN [outcome |-> "skip", key |-> legacyKey, err |-> "", heads |-> 2]
    ELSE IF ~isNotFoundError(h2.err)
    THEN [outcome |-> "error", key |-> "", err |-> h2.err, heads |-> 2]
    ELSE [outcome |-> "put", key |-> chooseKey(primaryKey, legacyKey, h1.err = ""),
          err |-> "", heads |-> 2]

\* lines 325-372: the keys are derived and looked up in the store
DownloadDedup ==
    /\ pc = "dedup"
    /\ \E f1, f2 \in BOOLEAN :
         LET primaryKey == primaryKeyOf(prefix, Video, format)
             legacyKey == legacyKeyOf(prefix, Video, format)
             plan == planYouTubeKey(primaryKey, legacyKey, Video.id,
                                    HeadObject(store, primaryKey, f1),
                                    HeadObject(store, legacyKey, f2))
             used == (IF f1 THEN 1 ELSE 0) + (IF f2 THEN 1 ELSE 0)
         IN  /\ f2 => plan.heads = 2
             /\ faults + used <= MaxFaults
             /\ faults' = faults + used
             /\ heads' = heads + plan.heads
             /\ envLog' = Failed(envLog, <<<<IF f1 THEN "head1" ELSE "", i>>,
                                            <<IF f2 THEN "head2" ELSE "", i>>>>)
             /\ \/ /\ plan.outcome = "error"
                   /\ ItemFails(plan.err, <<>>)
                   /\ streams' = ReturnUnwrapped(streams, i)
                   /\ UNCHANGED key
                \/ /\ plan.outcome = "skip"
                   /\ ItemSkipped
                   /\ streams' = ReturnUnwrapped(streams, i)
                   /\ UNCHANGED key
                \/ /\ plan.outcome = "put"
                   /\ key' = plan.key
                   /\ pc' = "put"
                   /\ UNCHANGED <<i, downloadErr, result, ret, events, streams>>
    /\ UNCHANGED <<store, format, cancelled, recalc, scheduled, puts>>
    /\ UNCHANGED batchVars
    /\ UNCHANGED <<sideVars, streamRead>>

\* mutant: the title tag is set whatever the title
metadataOf_AlwaysTitle(v) ==
    [k \in {youtubeVideoIDMetadataKey, youtubeVideoTitleMetadataKey} |->
        IF k = youtubeVideoIDMetadataKey THEN v.id ELSE Str(v.title)]

\* lines 374-379: the metadata of the new object
metadataOf(v) ==
    [k \in {youtubeVideoIDMetadataKey}
           \cup (IF v.title # <<>> THEN {youtubeVideoTitleMetadataKey} ELSE {}) |->
        IF k = youtubeVideoIDMetadataKey THEN v.id ELSE Str(v.title)]

\* mutant: the declared length is preferred to the count of the reader
sizeOf_DeclaredFirst(bytesRead, fmt) ==
    IF fmt.contentLength > 0 THEN fmt.contentLength ELSE bytesRead

\* lines 388-391: the size of the written object
sizeOf(bytesRead, fmt) ==
    IF bytesRead = 0 /\ fmt.contentLength > 0 THEN fmt.contentLength ELSE bytesRead

\* the throttled samples of a transfer that emitted n of them
Samples(n) ==
    [k \in 1..n |-> [ItemEvent("downloading") EXCEPT
                        !.bytesRead = k, !.totalBytesExpected = format.contentLength]]

\* the sample forced at the end of the stream
LastSample ==
    [ItemEvent("downloading") EXCEPT
        !.bytesRead = Video.bytes, !.totalBytesExpected = format.contentLength]

\* lines 374-399 and 201-217: the stream is written to the store
DownloadPut ==
    /\ pc = "put"
    /\ streams' = ReturnWrapped(newProgressReader(streams, i), i)
    /\ \E n \in 0..MaxSamples :
         /\ n <= Video.bytes
         /\ \/ /\ faults < MaxFaults
               /\ faults' = faults + 1
               /\ ItemFails(ErrPut, Samples(n))
               /\ streamRead' = streamRead + n
               /\ envLog' = Failed(envLog, <<<<"put", i>>>>)
               /\ puts' = Append(puts, [key |-> key, existed |-> key \in DOMAIN store,
                                        ok |-> FALSE])
               /\ UNCHANGED store
            \/ LET item == [video |-> videos[i], key |-> key, videoID |-> Video.id,
                            sizeBytes |-> sizeOf(Video.bytes, format),
                            contentType |-> contentTypeFromMime(format.mime)]
                   res == recordImported(result, item)
               IN  /\ store' = PutObject(store, key, videos[i],
                                         contentTypeFromMime(format.mime),
                                         metadataOf(Video))
                   /\ puts' = Append(puts, [key |-> key, existed |-> key \in DOMAIN store,
                                            ok |-> TRUE])
                   /\ downloadErr' = ""
                   /\ streamRead' = streamRead + Video.bytes
                   /\ result' = res
                   /\ events' = emitProgress(sink, events,
                        Samples(n) \o <<LastSample>>
                        \o <<[ItemEvent("downloaded") EXCEPT
                                !.imported = res.imported, !.failed = Len(res.errors),
                                !.totalBytes = res.totalBytes, !.destination = key]>>)
                   /\ i' = i + 1
                   /\ pc' = "loop"
                   /\ UNCHANGED <<ret, faults, envLog>>
    /\ UNCHANGED <<format, key, cancelled, recalc, scheduled, heads>>
    /\ UNCHANGED batchVars
    /\ UNCHANGED sideVars

\* the caller cancels the context of the running batch
Cancel ==
    /\ pc \in {"loop", "open", "dedup", "put"}
    /\ ~cancelled
    /\ cancelled' = TRUE
    /\ UNCHANGED <<store, pc, i, format, key, downloadErr, result, ret, events,
                   recalc, scheduled, heads, puts, faults>>
    /\ UNCHANGED batchVars
    /\ envLog' = [envLog EXCEPT !.cancelAt = IF pc = "loop" THEN i ELSE i + 1]
    /\ UNCHANGED <<sideVars, streamRead, streams>>

\* line 222: the recomputation is given context.Background(), which is never
\* cancelled
RecalcContextDone == FALSE

\* lines 221-228: the detached recomputation runs; it fails if its context is
\* done and may fail otherwise; its error is only logged
RecalcRun ==
    /\ recalc > 0
    /\ \E failed \in {RecalcContextDone, TRUE} : recalc' = recalc - 1
    /\ UNCHANGED <<store, pc, i, format, key, downloadErr, result, ret, events,
                   cancelled, scheduled, heads, puts, faults>>
    /\ UNCHANGED batchVars
    /\ UNCHANGED <<sideVars, streamRead, streams, envLog>>

\* ImportYouTube has returned: its locals are gone, the caller holds what it
\* returned and the sink holds the events
Return ==
    /\ pc = "done"
    /\ pc' = "idle"
    /\ prev' = IF ret.kind = "result" /\ Len(entries) = 1 /\ result.imported = 1
               THEN [url |-> url, prefix |-> prefix, only |-> TRUE]
               ELSE NoPrev
    /\ url' = <<>>
    /\ prefix' = ""
    /\ entries' = <<>>
    /\ failedEntries' = {}
    /\ resolution' = "none"
    /\ videos' = <<>>
    /\ i' = 0
    /\ format' = NoFormat
    /\ key' = ""
    /\ downloadErr' = ""
    /\ result' = NoResult
    /\ ret' = NoRet
    /\ events' = <<>>
    /\ cancelled' = FALSE
    /\ scheduled' = 0
    /\ heads' = 0
    /\ puts' = <<>>
    /\ faults0' = faults
    /\ store0' = store
    /\ UNCHANGED <<store, recalc, batches, faults>>
    /\ envLog' = NoEnvLog
    /\ streamRead' = 0
    /\ streams' = <<>>
    /\ UNCHANGED sideVars

Next ==
    \/ BeginEmptyURL
    \/ BeginSetupFails
    \/ BeginResolveFails
    \/ BeginPlaylist
    \/ BeginVideo
    \/ LoopCancelled
    \/ LoopStart
    \/ Finish
    \/ DownloadOpen
    \/ DownloadDedup
    \/ DownloadPut
    \/ Cancel
    \/ RecalcRun
    \/ Return

Spec == Init /\ [][Next]_vars

(***************************************************************************)
(* ImportYouTube with and without a progress callback: a batch is run with *)
(* a callback, then the store and the failure budget are put back and the  *)
(* same call is made without one.                                          *)
(***************************************************************************)
\* the store after video A was imported without a prefix
ImportedStore ==
    PutObject(EmptyStore, "a-b.mp4", "A", "video/mp4", metadataOf(Catalogue.A))

SinkInit ==
    /\ \E st \in InitialStores \cup {ImportedStore} : BatchStart(st, MaxBatches - 1)
    /\ sink = TRUE
    /\ reader = NoReader
    /\ call = NoCall

\* the call that has returned is kept, with what it returned and did, and
\* everything is put back for the same call without a callback
Rerun ==
    /\ pc = "done"
    /\ sink
    /\ call' = [fn |-> "ImportYouTube",
                arg |-> [url |-> url, prefix |-> prefix],
                out |-> [result |-> result, ret |-> ret, heads |-> heads, puts |-> puts,
                         store |-> store, envLog |-> envLog],
                done |-> TRUE]
    /\ sink' = FALSE
    /\ store' = store0
    /\ faults' = faults0
    /\ batches' = batches - 1
    /\ pc' = "idle"
    /\ url' = <<>>
    /\ prefix' = ""
    /\ entries' = <<>>
    /\ failedEntries' = {}
    /\ resolution' = "none"
    /\ videos' = <<>>
    /\ i' = 0
    /\ format' = NoFormat
    /\ key' = ""
    /\ downloadErr' = ""
    /\ result' = NoResult
    /\ ret' = NoRet
    /\ events' = <<>>
    /\ cancelled' = FALSE
    /\ scheduled' = 0
    /\ heads' = 0
    /\ puts' = <<>>
    /\ streamRead' = 0
    /\ streams' = <<>>
    /\ envLog' = NoEnvLog
    /\ recalc' = 0
    /\ UNCHANGED <<faults0, store0, prev, reader>>

SinkNext ==
    \/ Next
    \/ Rerun

SinkSpec == SinkInit /\ [][SinkNext]_vars

(***************************************************************************)
(* selectYouTubeFormat (lines 402-425), examined on its own: it is called  *)
(* on every list of up to MaxFormats formats.                              *)
(***************************************************************************)
MaxFormats == 2

\* formats of the three media types, with and without audio, of two ranks
SampleFormats ==
    {Fmt(mime, audio, rank, 0) :
        mime \in {"video/mp4; codecs=avc1", "audio/mp4; codecs=mp4a", "video/webm; codecs=vp9"},
        audio \in {0, 2}, rank \in {1, 2}}

FormatLists == UNION {[1..n -> SampleFormats] : n \in 0..MaxFormats}

FormatInit ==
    /\ BatchStart(EmptyStore, 0)
    /\ sink = TRUE
    /\ reader = NoReader
    /\ \E list \in FormatLists :
         call = [fn |-> "selectYouTubeFormat", arg |-> list, out |-> <<>>, done |-> FALSE]

SelectFormat ==
    /\ call.fn = "selectYouTubeFormat"
    /\ ~call.done
    /\ call' = [call EXCEPT !.out = selectYouTubeFormat([formats |-> call.arg]),
                            !.done = TRUE]
    /\ UNCHANGED <<batchState, batchVars, sink, reader>>

FormatNext == SelectFormat

FormatSpec == FormatInit /\ [][FormatNext]_vars

(***************************************************************************)
(* normalizeObjectPrefix (lines 489-498), examined on its own: it is       *)
(* called on every prefix of up to MaxPrefixLen characters.                *)
(***************************************************************************)
MaxPrefixLen == 5

PrefixChars == {"/", "m", " "}

PrefixInputs == UNION {[1..n -> PrefixChars] : n \in 0..MaxPrefixLen}

PrefixInit ==
    /\ BatchStart(EmptyStore, 0)
    /\ sink = TRUE
    /\ reader = NoReader
    /\ \E input \in PrefixInputs :
         call = [fn |-> "normalizeObjectPrefix", arg |-> input, out |-> <<>>,
                 done |-> FALSE]

NormalizePrefix ==
    /\ call.fn = "normalizeObjectPrefix"
    /\ ~call.done
    /\ call' = [call EXCEPT !.out = normalizedPrefix(call.arg), !.done = TRUE]
    /\ UNCHANGED <<batchState, batchVars, sink, reader>>

PrefixNext == NormalizePrefix

PrefixSpec == PrefixInit /\ [][PrefixNext]_vars

(***************************************************************************)
(* The decision of downloadYouTubeVideo between skip and write (lines      *)
(* 338-372), examined on its own: it is taken for every pair of answers of *)
(* the store to the lookups of the two keys.                               *)
(***************************************************************************)
VideoIDs == {"", "X", "Y"}

\* the metadata a found object may carry
MetadataSamples ==
    {NoMetadata,
     [k \in {"Bucketbird-Video-Title"} |-> "a b"]}
    \cup {[k \in {name} |-> id] :
             name \in {"Bucketbird-Video-Id", youtubeVideoIDMetadataKey},
             id \in {"", "X"}}

NotFoundAnswer == [err |-> ErrNotFoundMsg, metadata |-> NoMetadata]
StoreErrorAnswer == [err |-> ErrStoreMsg, metadata |-> NoMetadata]
FoundAnswer(m) == [err |-> "", metadata |-> m]

\* what HeadObject may answer
Answers == {NotFoundAnswer, StoreErrorAnswer} \cup {FoundAnswer(m) : m \in MetadataSamples}

PlanInit ==
    /\ BatchStart(EmptyStore, 0)
    /\ sink = TRUE
    /\ reader = NoReader
    /\ \E id \in VideoIDs, h1 \in Answers,
          h2 \in {NotFoundAnswer, StoreErrorAnswer, FoundAnswer(NoMetadata)} :
         call = [fn |-> "planYouTubeKey",
                 arg |-> [videoID |-> id, primary |-> h1, legacy |-> h2],
                 out |-> <<>>, done |-> FALSE]

PlanKey ==
    /\ call.fn = "planYouTubeKey"
    /\ ~call.done
    /\ call' = [call EXCEPT !.out = planYouTubeKey("primary", "legacy", call.arg.videoID,
                                                  call.arg.primary, call.arg.legacy),
                            !.done = TRUE]
    /\ UNCHANGED <<batchState, batchVars, sink, reader>>

PlanNext == PlanKey

PlanSpec == PlanInit /\ [][PlanNext]_vars

(***************************************************************************)
(* ImportYouTube with calls that honour the context: GetStreamContext,     *)
(* HeadObject and PutObject are given the context of the batch (lines 315, *)
(* 338, 355 and 384); once it is cancelled each of them may return its     *)
(* error instead of finishing.                                             *)
(***************************************************************************)
\* mutant: a call returns the error of the context although nobody cancelled
ContextErrors_Uncancelled(ctxDone) == {ErrCancelled}

\* the errors that a call may return on account of its context
ContextErrors(ctxDone) == IF ctxDone THEN {ErrCancelled} ELSE {}

\* what HeadObject answers when it gives up on account of its context
AbortedAnswer(msg) == [err |-> msg, metadata |-> NoMetadata]

CancelInit ==
    /\ \E st \in InitialStores \cup {ImportedStore} : BatchStart(st, MaxBatches - 1)
    /\ sink = TRUE
    /\ reader = NoReader
    /\ call = NoCall

\* lines 315-318: GetStreamContext gives up on account of the context
DownloadOpenAborted ==
    /\ pc = "open"
    /\ selectYouTubeFormat(Video).ok
    /\ faults < MaxFaults
    /\ \E msg \in ContextErrors(cancelled) :
         /\ faults' = faults + 1
         /\ ItemFails(msg, <<>>)
         /\ envLog' = Failed(envLog, <<<<"open-ctx", i>>>>)
    /\ UNCHANGED <<store, format, key, cancelled, recalc, scheduled, heads, puts>>
    /\ UNCHANGED batchVars
    /\ UNCHANGED <<sideVars, streamRead, streams>>

\* lines 338-365: a lookup gives up on account of the context
DownloadDedupAborted ==
    /\ pc = "dedup"
    /\ faults < MaxFaults
    /\ \E msg \in ContextErrors(cancelled), first \in BOOLEAN :
         LET primaryKey == primaryKeyOf(prefix, Video, format)
             legacyKey == legacyKeyOf(prefix, Video, format)
             h1 == IF first THEN AbortedAnswer(msg)
                   ELSE HeadObject(store, primaryKey, FALSE)
             h2 == IF first THEN HeadObject(store, legacyKey, FALSE)
                   ELSE AbortedAnswer(msg)
             plan == planYouTubeKey(primaryKey, legacyKey, Video.id, h1, h2)
         IN  /\ ~first => plan.heads = 2
             /\ plan.outcome = "error"
             /\ faults' = faults + 1
             /\ heads' = heads + plan.heads
             /\ envLog' = Failed(envLog, <<<<IF first THEN "head1-ctx" ELSE "head2-ctx", i>>>>)
             /\ ItemFails(plan.err, <<>>)
             /\ streams' = ReturnUnwrapped(streams, i)
    /\ UNCHANGED <<store, format, key, cancelled, recalc, scheduled, puts>>
    /\ UNCHANGED batchVars
    /\ UNCHANGED <<sideVars, streamRead>>

\* lines 381-386: PutObject gives up on account of the context, after n
\* samples
DownloadPutAborted ==
    /\ pc = "put"
    /\ faults < MaxFaults
    /\ \E msg \in ContextErrors(cancelled), n \in 0..MaxSamples :
         /\ n <= Video.bytes
         /\ faults' = faults + 1
         /\ ItemFails(msg, Samples(n))
         /\ streamRead' = streamRead + n
         /\ envLog' = Failed(envLog, <<<<"put-ctx", i>>>>)
         /\ puts' = Append(puts, [key |-> key, existed |-> key \in DOMAIN store,
                                  ok |-> FALSE])
         /\ streams' = ReturnWrapped(newProgressReader(streams, i), i)
    /\ UNCHANGED <<store, format, key, cancelled, recalc, scheduled, heads>>
    /\ UNCHANGED batchVars
    /\ UNCHANGED sideVars

CancelNext ==
    \/ Next
    \/ DownloadOpenAborted
    \/ DownloadDedupAborted
    \/ DownloadPutAborted

CancelSpec == CancelInit /\ [][CancelNext]_vars

(***************************************************************************)
(* The size of a written item (lines 321-323 and 388-399), examined on its *)
(* own: the count of the reader after a successful write, the length the  *)
(* format declares and the length hint of the stream are arbitrary.        *)
(***************************************************************************)
MaxSize == 4

Sizes == 0..MaxSize

SizeInit ==
    /\ BatchStart(EmptyStore, 0)
    /\ sink = TRUE
    /\ reader = NoReader
    /\ \E read \in Sizes, declared \in Sizes, hint \in Sizes :
         call = [fn |-> "sizeOf",
                 arg |-> [bytesRead |-> read, sizeHint |-> hint,
                          format |-> Fmt("video/mp4; codecs=avc1", 2, 1, declared)],
                 out |-> <<>>, done |-> FALSE]

\* lines 321-323 and 388-399: the item of a write that succeeded
SizeItem ==
    /\ call.fn = "sizeOf"
    /\ ~call.done
    /\ LET fmt == withSizeHint(call.arg.format, call.arg.sizeHint) IN
       call' = [call EXCEPT !.out = [sizeBytes |-> sizeOf(call.arg.bytesRead, fmt),
                                     contentType |-> contentTypeFromMime(fmt.mime)],
                            !.done = TRUE]
    /\ UNCHANGED <<batchState, batchVars, sink, reader>>

SizeNext == SizeItem

SizeSpec == SizeInit /\ [][SizeNext]_vars

(***************************************************************************)
(* Two batches at once on one bucket and one prefix (lines 338-386).       *)
(* ImportYouTube takes no lock and the store offers none (lines 74-101):   *)
(* the two lookups and the write of a download are three separate calls    *)
(* to the store, and the calls of the two batches interleave freely.  Each *)
(* batch is at one item, its format selected and its stream open.          *)
(***************************************************************************)
\* the two batches
Downloads == {1, 2}

\* the items the two batches are at
ConcurrentItems == {"A", "B", "D"}

\* lines 310-336: a download before its first lookup; primaryHead is the
\* answer to the lookup of the primary key, once it is made
StartDownload(v, pfx) ==
    LET fmt == withSizeHint(selectYouTubeFormat(Catalogue[v]).format,
                            Catalogue[v].sizeHint)
    IN  [at |-> "head1", video |-> v, format |-> fmt,
         primaryKey |-> primaryKeyOf(pfx, Catalogue[v], fmt),
         legacyKey |-> legacyKeyOf(pfx, Catalogue[v], fmt),
         primaryHead |-> HeadObject(EmptyStore, "", FALSE),
         key |-> "", outcome |-> "", err |-> "", existed |-> FALSE]

ConcurrentInit ==
    /\ \E st \in InitialStores : BatchStart(st, 0)
    /\ sink = TRUE
    /\ reader = NoReader
    /\ \E p \in Prefixes, v1, v2 \in ConcurrentItems :
         LET pfx == normalizeObjectPrefix(p) IN
         call = [fn |-> "downloadYouTubeVideo",
                 arg |-> [prefix |-> pfx, videos |-> <<v1, v2>>],
                 out |-> <<StartDownload(v1, pfx), StartDownload(v2, pfx)>>,
                 done |-> FALSE]

\* a download returns: skipped, imported or error
Returned(d, outcome, k, err) ==
    [d EXCEPT !.at = "returned", !.outcome = outcome, !.key = k, !.err = err]

\* lines 338-353: batch b looks up the primary key
LookupPrimary(b) ==
    /\ call.fn = "downloadYouTubeVideo"
    /\ call.out[b].at = "head1"
    /\ \E f \in BOOLEAN :
         LET d == call.out[b]
             h1 == HeadObject(store, d.primaryKey, f)
             plan == planYouTubeKey(d.primaryKey, d.legacyKey, Catalogue[d.video].id,
                                    h1, h1)
         IN  /\ f => faults < MaxFaults
             /\ faults' = IF f THEN faults + 1 ELSE faults
             /\ \/ /\ plan.heads = 1
                   /\ plan.outcome = "error"
                   /\ call' = [call EXCEPT !.out[b] = Returned(d, "error", "", plan.err)]
                \/ /\ plan.heads = 1
                   /\ plan.outcome = "skip"
                   /\ call' = [call EXCEPT !.out[b] = Returned(d, "skipped", plan.key, "")]
                \/ /\ plan.heads = 2
                   /\ call' = [call EXCEPT !.out[b] =
                                   [d EXCEPT !.at = "head2", !.primaryHead = h1]]
    /\ UNCHANGED <<store, pc, i, format, key, downloadErr, result, ret, events,
                   cancelled, recalc, scheduled, heads, puts, streamRead, streams,
                   envLog>>
    /\ UNCHANGED <<batchVars, sink, reader>>

\* lines 355-372: batch b looks up the ID-suffixed key and chooses the key
\* of the new object
LookupLegacy(b) ==
    /\ call.fn = "downloadYouTubeVideo"
    /\ call.out[b].at = "head2"
    /\ \E f \in BOOLEAN :
         LET d == call.out[b]
             h2 == HeadObject(store, d.legacyKey, f)
             plan == planYouTubeKey(d.primaryKey, d.legacyKey, Catalogue[d.video].id,
                                    d.primaryHead, h2)
         IN  /\ f => faults < MaxFaults
             /\ faults' = IF f THEN faults + 1 ELSE faults
             /\ \/ /\ plan.outcome = "error"
                   /\ call' = [call EXCEPT !.out[b] = Returned(d, "error", "", plan.err)]
                \/ /\ plan.outcome = "skip"
                   /\ call' = [call EXCEPT !.out[b] = Returned(d, "skipped", plan.key, "")]
                \/ /\ plan.outcome = "put"
                   /\ call' = [call EXCEPT !.out[b] =
                                   [d EXCEPT !.at = "put", !.key = plan.key]]
    /\ UNCHANGED <<store, pc, i, format, key, downloadErr, result, ret, events,
                   cancelled, recalc, scheduled, heads, puts, streamRead, streams,
                   envLog>>
    /\ UNCHANGED <<batchVars, sink, reader>>

\* lines 374-399: batch b writes its object; existed tells whether the key
\* held an object when the write was made
ConcurrentPut(b) ==
    /\ call.fn = "downloadYouTubeVideo"
    /\ call.out[b].at = "put"
    /\ LET d == call.out[b] IN
       \/ /\ faults < MaxFaults
          /\ faults' = faults + 1
          /\ call' = [call EXCEPT !.out[b] = Returned(d, "error", "", ErrPut)]
          /\ UNCHANGED store
       \/ /\ store' = PutObject(store, d.key, d.video,
                                contentTypeFromMime(d.format.mime),
                                metadataOf(Catalogue[d.video]))
          /\ call' = [call EXCEPT !.out[b] =
                          [Returned(d, "imported", d.key, "") EXCEPT
                              !.existed = d.key \in DOMAIN store]]
          /\ UNCHANGED faults
    /\ UNCHANGED <<pc, i, format, key, downloadErr, result, ret, events,
                   cancelled, recalc, scheduled, heads, puts, streamRead, streams,
                   envLog>>
    /\ UNCHANGED <<batchVars, sink, reader>>

ConcurrentNext ==
    \E b \in Downloads :
        \/ LookupPrimary(b)
        \/ LookupLegacy(b)
        \/ ConcurrentPut(b)

ConcurrentSpec == ConcurrentInit /\ [][ConcurrentNext]_vars

(***************************************************************************)
(* progressReader (lines 522-577), examined on its own: a stream of        *)
(* reader.length bytes is read through the wrapper while the clock         *)
(* advances.  Times are in milliseconds.                                   *)
(***************************************************************************)
MaxStream == 3
MaxTicks == 2

\* line 557: the throttling window
Window == 500

\* lines 560-565: bytes per second since the last sample, 0 if no time passed
speedOf(deltaBytes, deltaTime) ==
    IF deltaTime > 0 THEN (deltaBytes * 1000) \div deltaTime ELSE 0

\* mutant: the forced sample is throttled like the others
report_ThrottlesForced(r, force) ==
    IF ~r.callback THEN r
    ELSE IF r.now - r.lastTime < Window THEN r
    ELSE [r EXCEPT !.samples = Append(@, [bytesRead |-> r.read, total |-> r.total,
                                          speed |-> speedOf(r.read - r.lastBytes,
                                                            r.now - r.lastTime),
                                          at |-> r.now, forced |-> force]),
                   !.lastTime = r.now,
                   !.lastBytes = r.read]

\* mutant: the time of the last sample is not kept
report_KeepsLastTime(r, force) ==
    IF ~r.callback THEN r
    ELSE IF ~force /\ r.now - r.lastTime < Window THEN r
    ELSE [r EXCEPT !.samples = Append(@, [bytesRead |-> r.read, total |-> r.total,
                                          speed |-> speedOf(r.read - r.lastBytes,
                                                            r.now - r.lastTime),
                                          at |-> r.now, forced |-> force]),
                   !.lastBytes = r.read]

\* lines 552-569: the reader after report(force); a sample is a call of the
\* callback, recorded with the time and the cause of the call
report(r, force) ==
    IF ~r.callback THEN r
    ELSE IF ~force /\ r.now - r.lastTime < Window THEN r
    ELSE [r EXCEPT !.samples = Append(@, [bytesRead |-> r.read, total |-> r.total,
                                          speed |-> speedOf(r.read - r.lastBytes,
                                                            r.now - r.lastTime),
                                          at |-> r.now, forced |-> force]),
                   !.lastTime = r.now,
                   !.lastBytes = r.read]

\* lines 540-550: the reader after a Read for which the wrapped stream
\* returned n bytes and err
Read(r, n, err) ==
    LET counted == IF n > 0 THEN report([r EXCEPT !.read = @ + n], FALSE) ELSE r
        told == IF err = "EOF" THEN report(counted, TRUE) ELSE counted
    IN  [told EXCEPT !.ended = err]

\* lines 531-538: a reader is created over a stream, with or without a
\* callback; the declared total may be missing
ReaderInit ==
    /\ BatchInit
    /\ store = EmptyStore
    /\ sink = TRUE
    /\ call = NoCall
    /\ \E len \in 0..MaxStream, cb \in BOOLEAN, declared \in BOOLEAN :
         reader = [NoReader EXCEPT !.length = len, !.callback = cb,
                                   !.total = IF declared THEN len ELSE 0]

Unread == reader.length - reader.read

\* the wrapped stream returns n bytes, and with the last of them the end of
\* the stream or not
ReadData ==
    /\ reader.ended = ""
    /\ \E n \in 1..Unread, atEnd \in BOOLEAN :
         /\ atEnd => n = Unread
         /\ reader' = Read(reader, n, IF atEnd THEN "EOF" ELSE "")
    /\ UNCHANGED <<batchState, batchVars, sink, call>>

\* the wrapped stream has no more bytes and returns the end of the stream
ReadEOF ==
    /\ reader.ended = ""
    /\ Unread = 0
    /\ reader' = Read(reader, 0, "EOF")
    /\ UNCHANGED <<batchState, batchVars, sink, call>>

\* the wrapped stream fails
ReadFails ==
    /\ reader.ended = ""
    /\ reader' = Read(reader, 0, "error")
    /\ UNCHANGED <<batchState, batchVars, sink, call>>

\* time passes between two reads
Tick ==
    /\ reader.ended = ""
    /\ reader.ticks < MaxTicks
    /\ \E d \in {Window - 1, Window} :
         reader' = [reader EXCEPT !.now = @ + d, !.ticks = @ + 1]
    /\ UNCHANGED <<batchState, batchVars, sink, call>>

ReaderNext ==
    \/ ReadData
    \/ ReadEOF
    \/ ReadFails
    \/ Tick

ReaderSpec == ReaderInit /\ [][ReaderNext]_vars

(***************************************************************************)
(* Properties.                                                             *)
(***************************************************************************)
EventsOf(stage) == SelectSeq(events, LAMBDA e : e.stage = stage)

OkPuts == SelectSeq(puts, LAMBDA q : q.ok)

\* C1: a batch that returns an ImportResult accounts for every declared item
\* of the reference: imported + skipped + len(errors) is the number of
\* declared items (the members of the playlist, resolved or not, or the one
\* video).
C1_EveryItemAccounted ==
    ret.kind = "result" =>
        result.imported + result.skipped + Len(result.errors) = Len(entries)

\* a playlist with a member that failed to resolve and a member that was
\* imported has been returned
C1_Witness ==
    /\ ret.kind = "result"
    /\ result.kind = "playlist"
    /\ failedEntries # {}
    /\ result.imported >= 1

\* C2: no step changes or removes an object that is in the store, and no put
\* of a batch is issued to a key at which an object exists.
C2_NoOverwrite ==
    [][/\ \A k \in DOMAIN store : k \in DOMAIN store' /\ store'[k] = store[k]
       /\ \A n \in 1..Len(puts') : ~puts'[n].existed]_vars

\* an item was written beside an unrelated object that holds its primary key
C2_Witness ==
    /\ "a-b.mp4" \in DOMAIN store
    /\ store["a-b.mp4"] = UnrelatedObject
    /\ \E n \in 1..Len(puts) : puts[n].ok /\ puts[n].key = "a-b-X.mp4"

\* the batch that has just ended repeats the previous one, which imported
\* its only item: same reference, same prefix
Reimport ==
    /\ pc = "done"
    /\ prev.only
    /\ url = prev.url
    /\ prefix = prev.prefix

SkippedOnly ==
    /\ ret.kind = "result"
    /\ result.skipped = 1
    /\ result.imported = 0
    /\ result.errors = <<>>
    /\ result.totalBytes = 0
    /\ puts = <<>>
    /\ store = store0

\* the batch that has just ended met no failure of the resolver or the store
\* and was not cancelled
Undisturbed ==
    /\ faults = faults0
    /\ ~(ret.kind = "error" /\ ret.err = ErrCancelled)

C4_DistinctKeys ==
    \A a, b \in 1..Len(result.items) :
        LET va == Catalogue[result.items[a].video]
            vb == Catalogue[result.items[b].video]
            fa == selectYouTubeFormat(va).format
            fb == selectYouTubeFormat(vb).format
        IN  a < b =>
            /\ result.items[a].key # result.items[b].key
            /\ (/\ va.id # vb.id
                /\ buildYouTubeBaseName(va.title) = buildYouTubeBaseName(vb.title)
                /\ extensionFromMime(fa.mime) = extensionFromMime(fb.mime))
               => result.items[b].key = legacyKeyOf(prefix, vb, fb)

\* A and B, whose titles both sanitize to a-b, were imported by one batch
C4_Witness ==
    /\ Len(result.items) >= 2
    /\ result.items[1].video = "A"
    /\ result.items[2].video = "B"
    /\ result.items[1].key = prefix \o "a-b.mp4"
    /\ result.items[2].key = prefix \o "a-b-Y.mp4"

\* C5 as stated: a batch ends either with an error and without having
\* written an object, or with a result that holds an outcome for every item
\* and an ImportedItem for every object written.
C5_Original ==
    pc = "done" =>
        \/ ret.kind = "error" /\ OkPuts = <<>>
        \/ /\ ret.kind = "result"
           /\ result.imported + result.skipped + Len(result.errors) = Len(entries)
           /\ \A n \in 1..Len(OkPuts) :
                  \E m \in 1..Len(result.items) : result.items[m].key = OkPuts[n].key

\* the events that a step appended
NewEvents == SubSeq(events', Len(events) + 1, Len(events'))

\* C6: the step in which an item fails at format selection, at the opening of
\* the stream or at the write adds one ImportError and one error event for
\* that item, leaves imported, skipped, items and totalBytes as they were,
\* returns nothing and leaves the loop at the next item; at the head of the
\* loop the next item, if any, is started unless the batch is cancelled.
C6_ItemFailureIsLocal ==
    [][/\ (/\ pc \in {"open", "put"}
           /\ downloadErr' \in {ErrNoFormat, ErrStreamOpen, ErrPut})
          => /\ Len(events') >= Len(events)
             /\ result'.errors = Append(result.errors,
                    [video |-> videos[i], videoID |-> Catalogue[videos[i]].id,
                     error |-> downloadErr'])
             /\ Len(SelectSeq(NewEvents, LAMBDA e : e.stage = "error")) = 1
             /\ \A n \in 1..Len(NewEvents) :
                    /\ NewEvents[n].index = i
                    /\ NewEvents[n].video = videos[i]
                    /\ NewEvents[n].stage \in {"downloading", "error"}
                    /\ NewEvents[n].stage = "error" => NewEvents[n].error = downloadErr'
             /\ result'.imported = result.imported
             /\ result'.skipped = result.skipped
             /\ result'.items = result.items
             /\ result'.totalBytes = result.totalBytes
             /\ ret' = NoRet
             /\ pc' = "loop"
             /\ i' = i + 1
       /\ (pc = "loop" /\ pc' # "loop" /\ i <= Len(videos) /\ ~cancelled)
          => /\ pc' = "open"
             /\ events' = Append(events, ItemEvent("starting"))]_vars

\* a playlist of three whose second item failed at the opening of its stream
\* has been returned: two imported, none skipped, one error, Failed = 1
C6_Witness ==
    /\ ret.kind = "result"
    /\ Len(entries) = 3
    /\ result.imported = 2
    /\ result.skipped = 0
    /\ result.errors = <<[video |-> "B", videoID |-> "Y", error |-> ErrStreamOpen]>>
    /\ events[Len(events)].stage = "finished"
    /\ events[Len(events)].failed = 1

\* the position of the one member that failed to resolve
FailedPos == CHOOSE k \in failedEntries : TRUE

OutcomeStages == {"downloaded", "skipped", "error"}

\* C7: when exactly one member of a playlist fails to resolve, the
\* resolution succeeds; the result holds exactly one resolution error, for that
\* member, and one error event was emitted for it before the resolved event;
\* the items are the other members in their declared order; they are started
\* in that order, and in a returned result each has been started and has
\* ended as downloaded, skipped or error.
C7_OneMemberFails ==
    (resolution = "playlist" /\ Cardinality(failedEntries) = 1) =>
        LET v == entries[FailedPos]
            memberErrors == SelectSeq(result.errors, LAMBDA e : e.error = ErrMember)
            memberEvents == SelectSeq(events, LAMBDA e : e.stage = "error" /\ e.index = 0)
            started == EventsOf("starting")
        IN  /\ ~(ret.kind = "error" /\ ret.err # ErrCancelled)
            /\ memberErrors = <<MemberError(v)>>
            /\ memberEvents = <<MemberErrorEvent(v)>>
            /\ events[2] = MemberErrorEvent(v)
            /\ events[3].stage = "resolved"
            /\ Len(videos) = Len(entries) - 1
            /\ \A n \in 1..Len(videos) :
                   videos[n] = entries[IF n < FailedPos THEN n ELSE n + 1]
            /\ Len(started) <= Len(videos)
            /\ \A n \in 1..Len(started) :
                   started[n].index = n /\ started[n].video = videos[n]
            /\ ret.kind = "result" =>
                   /\ Len(started) = Len(videos)
                   /\ \A n \in 1..Len(videos) :
                          Len(SelectSeq(events, LAMBDA e :
                                  e.index = n /\ e.stage \in OutcomeStages)) = 1

\* the second of three members failed to resolve, the other two were
\* processed and the result returned
C7_Witness ==
    /\ ret.kind = "result"
    /\ Len(entries) = 3
    /\ failedEntries = {2}
    /\ videos = <<"A", "C">>

\* C8: a batch whose reference is empty after trimming, or whose playlist or
\* single-video resolution fails, has returned an error and no result, has
\* emitted neither a resolved nor a finished event, has made no lookup and no
\* write in the store, and has scheduled no usage recomputation.
C8_FatalBeforeLoop ==
    (/\ pc # "idle"
     /\ (TrimSpace(url) = <<>> \/ resolution \in {"playlist-error", "video-error"}))
    => /\ pc = "done"
       /\ ret.kind = "error"
       /\ ret.err \in {ErrURLRequired, ErrLoadPlaylist, ErrLoadVideo}
       /\ EventsOf("resolved") = <<>>
       /\ EventsOf("finished") = <<>>
       /\ heads = 0
       /\ puts = <<>>
       /\ store = store0
       /\ scheduled = 0

\* a batch ended on a failed single-video resolution
C8_Witness ==
    /\ pc = "done"
    /\ resolution = "video-error"
    /\ ret = [kind |-> "error", err |-> ErrLoadVideo]

\* C9: when the batch is cancelled at the head of the iteration of an item,
\* its next step returns the cancellation error, with no starting event and
\* nothing else changed; a batch that returned the cancellation error has
\* started only the items before that one and has emitted no finished event.
C9_CancelAtBoundary ==
    [][/\ (pc = "loop" /\ i <= Len(videos) /\ cancelled /\ pc' # pc)
          => /\ pc' = "done"
             /\ ret' = [kind |-> "error", err |-> ErrCancelled]
             /\ events' = events
             /\ result' = result
             /\ store' = store
             /\ scheduled' = scheduled
       /\ (ret'.kind = "error" /\ ret'.err = ErrCancelled)
          => /\ Len(SelectSeq(events', LAMBDA e : e.stage = "finished")) = 0
             /\ Len(SelectSeq(events', LAMBDA e : e.stage = "starting")) = i' - 1
             /\ \A n \in 1..Len(events') : events'[n].index < i']_vars

\* a batch was cancelled after its first item and before its second
C9_Witness ==
    /\ ret = [kind |-> "error", err |-> ErrCancelled]
    /\ i = 2
    /\ Len(videos) = 3
    /\ Len(EventsOf("starting")) = 1

\* C10: a batch whose resolution succeeded and that did not end on the
\* cancellation error has, when it ends, returned its result and emitted the
\* finished event once, as the last event; no finished event exists before
\* the batch ends.
C10_FinishedOnce ==
    /\ (/\ pc = "done"
        /\ resolution \in {"playlist", "video"}
        /\ ~(ret.kind = "error" /\ ret.err = ErrCancelled))
       => /\ ret.kind = "result"
          /\ Len(EventsOf("finished")) = 1
          /\ events[Len(events)].stage = "finished"
    /\ pc \notin {"done", "idle"} => EventsOf("finished") = <<>>

\* a batch all of whose items failed has ended
C10_Witness ==
    /\ pc = "done"
    /\ ret.kind = "result"
    /\ Len(videos) >= 1
    /\ Len(result.errors) = Len(videos)
    /\ events[Len(events)].stage = "finished"

\* an error event of a playlist member that could not be resolved: it
\* carries no index
MemberErr(e) == e.stage = "error" /\ e.index = 0

\* event f may directly follow event e; withMembers tells whether the error
\* events of unresolved members are provided for
Follows(e, f, withMembers) ==
    \/ /\ e.stage = "resolving"
       /\ f.stage = "resolved" \/ (withMembers /\ MemberErr(f))
    \/ /\ withMembers /\ MemberErr(e)
       /\ f.stage = "resolved" \/ MemberErr(f)
    \/ /\ e.stage = "resolved"
       /\ f.stage = "finished" \/ (f.stage = "starting" /\ f.index = 1)
    \/ /\ e.stage \in {"starting", "downloading"} /\ e.index >= 1
       /\ f.index = e.index
       /\ f.stage \in {"downloading"} \cup OutcomeStages
    \/ /\ e.stage \in OutcomeStages /\ e.index >= 1
       /\ f.stage = "finished" \/ (f.stage = "starting" /\ f.index = e.index + 1)

\* the events so far begin a well-formed sequence
WellBegun(withMembers) ==
    events # <<>> =>
        /\ events[1].stage = "resolving"
        /\ \A k \in 1..(Len(events) - 1) : Follows(events[k], events[k + 1], withMembers)

\* the events are a whole well-formed sequence, over every item
WellEnded(withMembers) ==
    /\ Len(events) >= 3
    /\ WellBegun(withMembers)
    /\ events[Len(events)].stage = "finished"
    /\ LET e == events[Len(events) - 1] IN
         IF videos = <<>> THEN e.stage = "resolved"
         ELSE e.stage \in OutcomeStages /\ e.index = Len(videos)

\* C11 as stated: the events of a batch that returned a result are resolving,
\* resolved, then for each item in turn starting, downloading events and one
\* of downloaded, skipped or error, then finished; no error event precedes
\* resolved or lacks a starting event.
C11_Original == ret.kind = "result" => WellEnded(FALSE)

\* C11: as amended, one error event without an index for each playlist member
\* that could not be resolved lies between resolving and resolved; apart from
\* these the events of a batch that returned a result are resolving, resolved,
\* then for each item in turn starting, downloading events and one of
\* downloaded, skipped or error, then finished, and at any moment the events
\* so far begin such a sequence.
C11_EventOrder ==
    /\ WellBegun(TRUE)
    /\ ret.kind = "result" =>
          /\ WellEnded(TRUE)
          /\ Len(SelectSeq(events, MemberErr)) = Cardinality(failedEntries)

\* a playlist with an unresolved member was returned after two items, one of
\* them written with a downloading event
C11_Witness ==
    /\ ret.kind = "result"
    /\ failedEntries # {}
    /\ Len(videos) = 2
    /\ EventsOf("downloading") # <<>>
    /\ EventsOf("downloaded") # <<>>

RECURSIVE SumSizes(_)
SumSizes(items) ==
    IF items = <<>> THEN 0 ELSE items[1].sizeBytes + SumSizes(Tail(items))

\* C12: in every state, so at every item boundary and in the returned result,
\* totalBytes is the sum of sizeBytes over items and imported is the length
\* of items; the items are the successful writes, one for one and in order,
\* so that skipped and failed items add nothing to either.
C12_TotalsMatchItems ==
    /\ result.totalBytes = SumSizes(result.items)
    /\ result.imported = Len(result.items)
    /\ Len(result.items) = Len(OkPuts)
    /\ \A k \in 1..Len(result.items) : result.items[k].key = OkPuts[k].key
    /\ Len(result.items) = Len(EventsOf("downloaded"))

\* a result with two written items of different sizes and an item that was
\* skipped or failed has been returned
C12_Witness ==
    /\ ret.kind = "result"
    /\ result.imported = 2
    /\ result.totalBytes = 3
    /\ result.skipped + Len(result.errors) >= 1

\* C13: when a stream of N bytes has been read through the reader up to the
\* end of the stream, with a callback, the last sample reports bytesRead = N,
\* whatever time passed between the reads.
C13_LastSampleComplete ==
    (reader.callback /\ reader.ended = "EOF") =>
        /\ reader.samples # <<>>
        /\ reader.samples[Len(reader.samples)].bytesRead = reader.length
        /\ reader.read = reader.length

\* a stream of three bytes was read to its end within one window: the one
\* sample is the forced one
C13_Witness ==
    /\ reader.callback
    /\ reader.ended = "EOF"
    /\ reader.length = 3
    /\ reader.now < Window
    /\ Len(reader.samples) = 1
    /\ reader.samples[1].forced

\* C14: the step in which the lookups report that the item is in the store
\* issues no put, leaves the store alone, reads no byte of the source stream,
\* emits one skipped event for the item and no downloading event, and adds
\* one to skipped while imported, items, totalBytes and errors stay as they
\* were.
C14_SkipFrame ==
    [][(pc = "dedup" /\ pc' = "loop" /\ downloadErr' = "") =>
          /\ puts' = puts
          /\ store' = store
          /\ streamRead' = streamRead
          /\ Len(NewEvents) = 1
          /\ NewEvents[1].stage = "skipped"
          /\ NewEvents[1].index = i
          /\ result' = [result EXCEPT !.skipped = @ + 1]]_vars

\* an item was skipped in a batch that has put nothing and read nothing
C14_Witness ==
    /\ pc = "loop"
    /\ result.skipped = 1
    /\ heads >= 1
    /\ puts = <<>>
    /\ streamRead = 0
    /\ events[Len(events)].stage = "skipped"

\* the step is the end of the item loop
LoopEnds == pc = "loop" /\ pc' = "done" /\ ret'.kind = "result"

\* C15: the step that ends the item loop schedules one usage recomputation
\* if imported > 0 and none otherwise, and returns in the same step, the
\* recomputation still pending; no other step schedules one; the context of
\* a pending recomputation is not done, whatever became of the batch's; the
\* step in which a recomputation runs, failing or not, leaves the returned
\* result and error as they are.
C15_RecalcDetached ==
    [][/\ LoopEnds =>
            /\ scheduled' = IF result.imported > 0 THEN 1 ELSE 0
            /\ recalc' = recalc + scheduled'
       /\ (~LoopEnds /\ pc # "done") => scheduled' = scheduled
       /\ recalc > 0 => ~RecalcContextDone
       /\ recalc' < recalc =>
            /\ ret' = ret
            /\ result' = result
            /\ pc' = pc
            /\ events' = events]_vars

\* a batch that was cancelled during its last item has returned its result
\* while the recomputation it scheduled has not run yet
C15_Witness ==
    /\ pc = "done"
    /\ ret.kind = "result"
    /\ cancelled
    /\ result.imported >= 1
    /\ scheduled = 1
    /\ recalc >= 1

\* C16: a call without a callback delivers no event, and when it has met the
\* same failures and the same cancellation as the same call made with a
\* callback on the same store, it has returned the same result and the same
\* error, made as many lookups and the same puts, and left the same store.
C16_SinkIrrelevant ==
    /\ ~sink => events = <<>>
    /\ (pc = "done" /\ call.done /\ envLog = call.out.envLog) =>
          /\ result = call.out.result
          /\ ret = call.out.ret
          /\ heads = call.out.heads
          /\ puts = call.out.puts
          /\ store = call.out.store

\* a playlist was imported twice on the same store, with a callback and
\* without: an item skipped, an item written, an item failed
C16_Witness ==
    /\ pc = "done"
    /\ ~sink
    /\ call.done
    /\ envLog = call.out.envLog
    /\ ret.kind = "result"
    /\ result.skipped = 1
    /\ result.imported = 1
    /\ Len(result.errors) = 1

\* the positions of the members of the playlist that were resolved
ResolvedPos == {k \in 1..Len(entries) : k \notin failedEntries}

\* the n-th of them
NthResolved(n) ==
    CHOOSE k \in ResolvedPos : Cardinality({j \in ResolvedPos : j < k}) = n - 1

\* C17: after a playlist was resolved the result is of kind playlist and the
\* items are its resolved members, in their order; after the reference
\* turned out to be no playlist and the video was resolved, the result is of
\* kind video and there is one item, and a returned result has started and
\* accounted for exactly one; the resolved event and the finished event
\* carry the kind of the result.
C17_KindAndItems ==
    /\ resolution = "playlist" =>
          /\ result.kind = "playlist"
          /\ Len(videos) = Cardinality(ResolvedPos)
          /\ \A n \in 1..Len(videos) : videos[n] = entries[NthResolved(n)]
    /\ resolution = "video" =>
          /\ result.kind = "video"
          /\ Len(videos) = 1
          /\ videos = entries
          /\ ret.kind = "result" =>
                /\ Len(EventsOf("starting")) = 1
                /\ result.imported + result.skipped + Len(result.errors) = 1
    /\ \A n \in 1..Len(events) :
          events[n].stage \in {"resolved", "finished"} => events[n].kind = result.kind

\* a playlist of which the second member could not be resolved has been
\* returned, its two other members processed
C17_Witness ==
    /\ ret.kind = "result"
    /\ resolution = "playlist"
    /\ failedEntries = {2}
    /\ videos = <<"A", "C">>
    /\ events[Len(events)].stage = "finished"
    /\ events[Len(events)].kind = "playlist"

Selected == call.fn = "selectYouTubeFormat" /\ call.done

HasAudio(f) == f.audio > 0
IsMp4(f) == f.mime \in {"video/mp4; codecs=avc1", "audio/mp4; codecs=mp4a"}
FormatsOf(list) == {list[k] : k \in 1..Len(list)}

\* the formats the choice is made among
Candidates(list) ==
    LET audible == {f \in FormatsOf(list) : HasAudio(f)} IN
    IF \E f \in audible : IsMp4(f) THEN {f \in audible : IsMp4(f)} ELSE audible

\* the selection fails exactly when no format carries audio; otherwise the
\* selected format carries audio, is an mp4 format if a format with audio is,
\* and no candidate is ranked above it
SoundChoice(list, sel) ==
    /\ sel.ok <=> \E f \in FormatsOf(list) : HasAudio(f)
    /\ sel.ok =>
          /\ sel.format \in Candidates(list)
          /\ HasAudio(sel.format)
          /\ (\E f \in FormatsOf(list) : HasAudio(f) /\ IsMp4(f)) => IsMp4(sel.format)
          /\ \A f \in Candidates(list) : f.rank <= sel.format.rank

\* the lists that hold the formats of list in another order
Reordered(list) ==
    {[k \in 1..Len(list) |-> list[q[k]]] :
        q \in {q \in [1..Len(list) -> 1..Len(list)] :
                  \A a, b \in 1..Len(list) : a # b => q[a] # q[b]}}

\* C18 as stated: the selection is sound and the same formats give the same
\* choice in whatever order they are listed.
C18_Original ==
    Selected =>
        /\ SoundChoice(call.arg, call.out)
        /\ \A other \in Reordered(call.arg) :
              selectYouTubeFormat([formats |-> other]) = call.out

\* C18: as amended, the selection is sound; in another order the same
\* formats give a choice of the same rank and the same family, and the same
\* choice unless two different candidates share the best rank.
C18_FormatChoice ==
    Selected =>
        /\ SoundChoice(call.arg, call.out)
        /\ \A other \in Reordered(call.arg) :
              LET sel == selectYouTubeFormat([formats |-> other]) IN
              /\ sel.ok = call.out.ok
              /\ sel.format.rank = call.out.format.rank
              /\ IsMp4(sel.format) = IsMp4(call.out.format)
              /\ (\A f \in Candidates(call.arg) :
                      f.rank = call.out.format.rank => f = call.out.format)
                 => sel = call.out

\* among a better-ranked webm format and an mp4 format, both with audio, the
\* mp4 format was selected
C18_Witness ==
    /\ Selected
    /\ call.arg = <<Fmt("video/webm; codecs=vp9", 2, 2, 0),
                    Fmt("video/mp4; codecs=avc1", 2, 1, 0)>>
    /\ call.out.ok
    /\ call.out.format = call.arg[2]

\* C19: a normalized prefix is empty or ends with exactly one slash, does not
\* start with a slash and holds no two slashes in a row, and normalizing it
\* again returns it unchanged.
C19_Original ==
    (call.fn = "normalizeObjectPrefix" /\ call.done) =>
        LET out == call.out IN
        /\ out # <<>> =>
              /\ out[Len(out)] = "/"
              /\ Len(out) >= 2
              /\ out[Len(out) - 1] # "/"
              /\ out[1] # "/"
        /\ \A k \in 1..(Len(out) - 1) : ~(out[k] = "/" /\ out[k + 1] = "/")
        /\ normalizedPrefix(out) = out

Planned == call.fn = "planYouTubeKey" /\ call.done

\* the answer is an object that carries id as its identity tag
Tagged(h, id) ==
    /\ h.err = ""
    /\ \E k \in DOMAIN h.metadata :
          ToLower(k) = "bucketbird-video-id" /\ h.metadata[k] = id

Skip(k) == call.out.outcome = "skip" /\ call.out.key = k
Write(k) == call.out.outcome = "put" /\ call.out.key = k

\* neither lookup was answered with an error of the store
Answered ==
    /\ call.arg.primary # StoreErrorAnswer
    /\ call.arg.legacy # StoreErrorAnswer

\* C20 as stated, for lookups that the store answers: an object at the
\* primary key tagged with the ID of the item gives skip; else an object at
\* the legacy key gives skip; else an object at the primary key gives a write
\* to the legacy key; else the write goes to the primary key.
C20_Original ==
    (Planned /\ Answered) =>
        LET id == call.arg.videoID
            h1 == call.arg.primary
            h2 == call.arg.legacy
        IN  IF Tagged(h1, id) THEN Skip("primary")
            ELSE IF h2.err = "" THEN Skip("legacy")
            ELSE IF h1.err = "" THEN Write("legacy")
            ELSE Write("primary")

\* C20: as amended, the tag decides only for an item with a non-empty ID, and
\* then without a second lookup; a lookup answered with an error of the
\* store, when it is made, ends the item with that error.
C20_KeyDecision ==
    Planned =>
        LET id == call.arg.videoID
            h1 == call.arg.primary
            h2 == call.arg.legacy
        IN  IF h1 = StoreErrorAnswer
            THEN call.out.outcome = "error" /\ call.out.err = h1.err /\ call.out.heads = 1
            ELSE IF id # "" /\ Tagged(h1, id)
            THEN Skip("primary") /\ call.out.heads = 1
            ELSE /\ call.out.heads = 2
                 /\ IF h2.err = "" THEN Skip("legacy")
                    ELSE IF h2 = StoreErrorAnswer
                    THEN call.out.outcome = "error" /\ call.out.err = h2.err
                    ELSE IF h1.err = "" THEN Write("legacy")
                    ELSE Write("primary")

\* the primary key holds an object of another video and the legacy key is
\* free: the write goes to the legacy key
C20_Witness ==
    /\ Planned
    /\ call.arg.videoID = "Y"
    /\ Tagged(call.arg.primary, "X")
    /\ call.arg.legacy = NotFoundAnswer
    /\ Write("legacy")

\* the store holds an object whose content is that of video v
Holds(st, v) == \E k \in DOMAIN st : st[k].body = v

\* C21 as stated: an item is reported as skipped only when the store holds an
\* object that was written for that same item.
C21_Original ==
    \A n \in 1..Len(events) :
        events[n].stage = "skipped" => Holds(store, events[n].video)

\* the dedup check of the current batch would report video v as skipped, and
\* the store holds the object of v
AlreadyImported(v) ==
    LET sel == selectYouTubeFormat(Catalogue[v])
        primaryKey == primaryKeyOf(prefix, Catalogue[v], sel.format)
        legacyKey == legacyKeyOf(prefix, Catalogue[v], sel.format)
    IN  /\ sel.ok
        /\ Holds(store, v)
        /\ planYouTubeKey(primaryKey, legacyKey, Catalogue[v].id,
                          HeadObject(store, primaryKey, FALSE),
                          HeadObject(store, legacyKey, FALSE)).outcome = "skip"

\* the streams that are open
OpenStreams == {k \in DOMAIN streams : streams[k].open}

\* no item that is already imported has ended with the error of a failed
\* stream opening
NoImportedItemFailsAtOpen ==
    \A n \in 1..Len(result.errors) :
        result.errors[n].error = ErrStreamOpen
            => ~AlreadyImported(result.errors[n].video)

\* C22 as stated: no source stream is open while the dedup check of an item
\* is still to decide, and no item that is already imported ends with the
\* error of a failed stream opening.
C22_Original ==
    /\ pc = "dedup" => OpenStreams = {}
    /\ NoImportedItemFailsAtOpen

\* the items of the batch whose outcome the result holds
Recorded ==
    result.imported + result.skipped + Len(result.errors) - Cardinality(failedEntries)

\* C25: at most one source stream is open at any time; a stream that is open
\* is the one of the item at hand, opened last, after the outcome of every
\* earlier item was recorded and while every earlier stream is closed; the
\* streams were opened in the order of the items; every write to the store
\* was made through the stream of its item, which is closed when the next
\* item begins.
C25_OneAtATime ==
    /\ Cardinality(OpenStreams) <= 1
    /\ \A k \in DOMAIN streams :
           /\ k > 1 => streams[k - 1].item < streams[k].item
           /\ streams[k].open =>
                  /\ k = Len(streams)
                  /\ streams[k].item = i
                  /\ pc \in {"dedup", "put"}
                  /\ Recorded = i - 1
    /\ Len(puts) = Cardinality({k \in DOMAIN streams : streams[k].wrapped})
    /\ pc \in {"dedup", "put"} => OpenStreams = {Len(streams)}

\* the stream of the third item of a playlist is open, those of the first
\* two are closed, the first item was skipped and the second written
C25_Witness ==
    /\ pc = "put"
    /\ i = 3
    /\ Len(streams) = 3
    /\ OpenStreams = {3}
    /\ result.skipped = 1
    /\ result.imported = 1

\* C26: every stream opened for an item whose processing has returned is
\* closed, whether the item was skipped under its primary or its legacy key,
\* failed at a lookup or at the write, or was written.
C26_StreamsClosed ==
    \A k \in DOMAIN streams :
        (streams[k].item < i \/ pc \notin {"dedup", "put"})
            => ~streams[k].open /\ streams[k].closes >= 1

\* a batch of three items has ended: the first was skipped, the second was
\* written, the write of the third failed; three streams were opened and all
\* are closed
C26_Witness ==
    /\ pc = "done"
    /\ Len(streams) = 3
    /\ OpenStreams = {}
    /\ result.skipped = 1
    /\ result.imported = 1
    /\ Len(puts) = 2
    /\ result.errors # <<>>
    /\ result.errors[Len(result.errors)].error = ErrPut

\* C27 as stated: the stream of an item that was wrapped in the progress
\* reporter has been closed exactly once when the processing of the item has
\* returned.
C27_Original ==
    \A k \in DOMAIN streams : streams[k].wrapped => streams[k].closes = 1

\* the event carries the counters that the result r holds
ReportsCounters(e, r) ==
    /\ e.imported = r.imported
    /\ e.skippedCount = r.skipped
    /\ e.failed = Len(r.errors)

\* C24 as stated: no step of a batch lowers imported, skipped or the number
\* of errors, and every downloaded event and the finished event carry the
\* values of the three that the result holds when the event is emitted.
C24_Original ==
    [][(pc \notin {"idle", "done"}) =>
          /\ result'.imported >= result.imported
          /\ result'.skipped >= result.skipped
          /\ Len(result'.errors) >= Len(result.errors)
          /\ \A n \in 1..Len(NewEvents) :
                 NewEvents[n].stage \in {"downloaded", "finished"}
                     => ReportsCounters(NewEvents[n], result')]_vars

Sized == call.fn = "sizeOf" /\ call.done

\* C28: the sizeBytes of a written item is the count of bytes read through
\* the progress wrapper; when that count is zero it is the length the format
\* declares if that is positive, else the length hint of the stream if that
\* is positive, else zero.
C28_SizeBytes ==
    Sized =>
        LET read == call.arg.bytesRead
            declared == call.arg.format.contentLength
            hint == call.arg.sizeHint
        IN  call.out.sizeBytes =
                IF read > 0 THEN read
                ELSE IF declared > 0 THEN declared
                ELSE IF hint > 0 THEN hint
                ELSE 0

\* nothing was read, the format declares no length and the stream came with
\* a length hint of 3: the size is 3
C28_Witness ==
    /\ Sized
    /\ call.arg.bytesRead = 0
    /\ call.arg.format.contentLength = 0
    /\ call.arg.sizeHint = 3
    /\ call.out.sizeBytes = 3

\* the metadata m carries value under the tag name, in whatever case the
\* store returns the name
HasTag(m, name, value) ==
    \E k \in DOMAIN m : EqualFold(k, name) /\ m[k] = value

\* the metadata m carries the tag name
TagPresent(m, name) == \E k \in DOMAIN m : EqualFold(k, name)

\* what a head of the key of a written item returns carries the identity tag
\* with the ID of the item, and the title tag, with the title, exactly when
\* the title is not empty
TagsWritten(item) ==
    LET v == Catalogue[item.video]
        head == HeadObject(store, item.key, FALSE)
    IN  /\ head.err = ""
        /\ HasTag(head.metadata, youtubeVideoIDMetadataKey, v.id)
        /\ TagPresent(head.metadata, youtubeVideoTitleMetadataKey) <=> v.title # <<>>
        /\ v.title # <<>> =>
               HasTag(head.metadata, youtubeVideoTitleMetadataKey, Str(v.title))

\* the dedup check takes what a head of the key of a written item returns
\* for the item
HeadMatches(item) ==
    metadataMatchesYouTubeVideo(HeadObject(store, item.key, FALSE).metadata,
                                Catalogue[item.video].id)

\* C29 as stated: every written object carries the identity tag of its item
\* and the title tag exactly when the title is not empty, and the metadata
\* that a later head of its key returns matches the ID of the item in the
\* dedup check, whatever the ID.
C29_Original ==
    \A n \in 1..Len(result.items) :
        TagsWritten(result.items[n]) /\ HeadMatches(result.items[n])

\* C29: as amended, the metadata matches in the dedup check when the ID of
\* the item is not empty.
C29_TagsRoundTrip ==
    \A n \in 1..Len(result.items) :
        /\ TagsWritten(result.items[n])
        /\ Catalogue[result.items[n].video].id # "" => HeadMatches(result.items[n])

\* A, which has an ID and a title, was written and its tags match; the
\* store returns the names of its two tags in canonical case
C29_Witness ==
    /\ Len(result.items) >= 1
    /\ result.items[1].video = "A"
    /\ HeadMatches(result.items[1])
    /\ DOMAIN store[result.items[1].key].metadata =
           {"Bucketbird-Video-Id", "Bucketbird-Video-Title"}

\* the time since the last sample, or since the reader was created
Elapsed == reader.now - reader.lastTime

\* the samples that a step of the reader emitted
AddedSamples == SubSeq(reader'.samples, Len(reader.samples) + 1, Len(reader'.samples))

\* the step is a read that returned data
DataRead == reader'.read > reader.read

\* every sample that was not forced came a window or more after the one
\* before it, or after the creation of the reader
Spaced(samples) ==
    \A k \in 1..Len(samples) :
        ~samples[k].forced =>
            samples[k].at - (IF k = 1 THEN 0 ELSE samples[k - 1].at) >= Window

Rising(samples) ==
    \A k \in 2..Len(samples) : samples[k].bytesRead >= samples[k - 1].bytesRead

\* C30 as stated: a read that returns data emits a sample only if 500 ms or
\* more have passed since the last sample or the creation of the reader; two
\* samples in a row, the later not forced, are 500 ms or more apart; the
\* bytesRead of the samples never decreases.
C30_Original ==
    [][/\ (DataRead /\ AddedSamples # <<>>) => Elapsed >= Window
       /\ Spaced(reader'.samples)
       /\ Rising(reader'.samples)]_vars

\* C30: as amended, a read that returns data before the 500 ms have passed
\* emits nothing, unless it returns the end of the stream with the data, and
\* then it emits the one forced sample.
C30_Throttle ==
    [][/\ (DataRead /\ Elapsed < Window) =>
              \/ AddedSamples = <<>>
              \/ /\ reader'.ended = "EOF"
                 /\ Len(AddedSamples) = 1
                 /\ AddedSamples[1].forced
       /\ Spaced(reader'.samples)
       /\ Rising(reader'.samples)]_vars

\* two samples were emitted by reads of data, the first a window after the
\* creation of the reader and the second a window after the first
C30_Witness ==
    /\ Len(reader.samples) = 2
    /\ ~reader.samples[1].forced
    /\ ~reader.samples[2].forced
    /\ reader.samples[1].at = Window
    /\ reader.samples[2].at = 2 * Window
    /\ reader.samples[2].bytesRead > reader.samples[1].bytesRead

\* the items of the result that ended with the error of the context
Interrupted ==
    {n \in 1..Len(result.errors) : result.errors[n].error = ErrCancelled}

\* the batch has returned the error of the context
ReturnedCancelled == ret.kind = "error" /\ ret.err = ErrCancelled

C33_Original ==
    \A n \in 1..Len(events) :
        events[n].stage = "finished" =>
            /\ events[n].imported + events[n].failed + events[n].skippedCount
                   = events[n].total
            /\ \A m \in 1..Len(events) :
                   events[m].stage = "resolved" => events[m].total = events[n].total

\* C32 as stated: a batch that has written an object has, when it has ended
\* in whatever way, scheduled the usage recomputation.
C32_Original ==
    (pc = "done" /\ OkPuts # <<>>) => scheduled >= 1

\* C31 as stated: two batches that run at once on the same bucket and prefix
\* never both write the same key.
C31_Original ==
    ~(/\ call.fn = "downloadYouTubeVideo"
      /\ call.out[1].outcome = "imported"
      /\ call.out[2].outcome = "imported"
      /\ call.out[1].key = call.out[2].key)

====
